---- MODULE Spec2Model ----
(***************************************************************************)
(* Model of the mocha-gitlab-reporter: the suite/test aggregation tree     *)
(* builder (the runner event handlers registered by the constructor of     *)
(* MochaGitLabReporter) and the report finalizer (getXml).                  *)
(*                                                                         *)
(* JavaScript objects are records whose DOMAIN is the set of own keys, so  *)
(* "key in obj" is  key \in DOMAIN obj  and "delete obj.key" removes the   *)
(* key.  JavaScript arrays are sequences (index 1 is element 0).           *)
(* A JavaScript number that may be fractional is kept in fixed point, as   *)
(* an integer count of millionths; strings that the code parses again are  *)
(* sequences of one-character strings.                                     *)
(***************************************************************************)
EXTENDS Integers, Sequences, FiniteSets, TLC

(***************************************************************************)
(* Bounds of the model.                                                    *)
(***************************************************************************)
MaxSuites == 3      \* suite-start events in one run (the root included)
MaxTests == 1       \* largest suite.tests.length
MaxChildren == 2    \* largest suite.suites.length
MaxOutcomes == 2    \* pass / fail / pending events in one run
MaxNow == 1         \* largest reading of the clock, in milliseconds
MaxXmlCalls == 2    \* calls of getXml on the same tree
MaxItems == 3       \* longest array handed to the XML builder
MaxDepth == 2       \* largest depth handed to buildXml and buildXmlElement
MaxStrLen == 4      \* longest string handed to escapeXml
MaxRules == 3       \* longest list of file path transform rules
MaxConfigRules == 2 \* most rules in one filePathTransforms option
MaxReporterSuites == 2 \* suite-start events heard by a constructed reporter
MaxNameLen == 2     \* longest generated console reporter name

(***************************************************************************)
(* Program constants.                                                      *)
(***************************************************************************)
ROOT_SUITE_NAME == "Root Suite"
ROOT_TESTSUITES_NAME == "Mocha Tests"
MS_TO_SECONDS == 1000
DECIMAL_PLACES == 3

(***************************************************************************)
(* Inputs: titles, test objects, error objects, time zones.                *)
(***************************************************************************)
RootTitles == {"", "R"}
Titles == {"", "A"}
\* test objects of the runner: title, optional duration / expectedDuration.
\* A test that passed was run and measured; the test object of a fail event
\* carries an expected duration as well; a pending test was not run.
PassedTests == { [title |-> "t", duration |-> 1500] }
FailedTests == { [title |-> "t", duration |-> 7, expectedDuration |-> 2002] }
PendingTests == { [title |-> "t"] }
Errors == { [message |-> "boom", name |-> "Error", stack |-> "trace"] }
\* offset of local time from UTC, in seconds
TzOffsets == {0, 3600}

VARIABLES
  suiteObjs,       \* the runner's suite objects, in order of their suite-start events
  stack,           \* ids of the suites that have started and not yet ended, outermost first
  now,             \* the clock read by this._Date.now()
  tz,              \* time zone of the process, first read when getXml meets a formatted timestamp
  includePending,  \* this._options.includePending
  stats,           \* this._runner.stats, kept by the stats collector the constructor installs
  testsuites,      \* the reporter's top-level list of SuiteNodes
  returned,        \* the values returned by the calls of getXml, in order
  suiteFileCache,  \* this._suiteFileCache: the file cached for a suite, by suite id
  call,            \* the latest direct call of an exported function and its arguments
  result           \* what that call returned or threw

\* the state of a run of the reporter, and the state of the direct calls
runVars == <<suiteObjs, stack, now, tz, includePending, stats, testsuites, returned,
            suiteFileCache>>
callVars == <<call, result>>
vars == <<suiteObjs, stack, now, tz, includePending, stats, testsuites, returned,
         suiteFileCache, call, result>>

(***************************************************************************)
(* JavaScript values.                                                      *)
(***************************************************************************)
Micro == 1000 * 1000
Undefined == [type |-> "undefined"]
NaN == [type |-> "NaN"]
JsNumber(m) == [type |-> "number", micro |-> m]
JsString(cs) == [type |-> "string", chars |-> cs]
\* the ISO-8601 text of an instant, cut to whole seconds: "YYYY-MM-DDTHH:MM:SS"
IsoString(sec) == [type |-> "string", isoSec |-> sec]

Get(obj, key) == IF key \in DOMAIN obj THEN obj[key] ELSE Undefined
Put(obj, key, val) == [k \in DOMAIN obj \cup {key} |-> IF k = key THEN val ELSE obj[k]]
Delete(obj, key) == [k \in DOMAIN obj \ {key} |-> obj[k]]
Last(s) == s[Len(s)]

Pow10(n) == IF n = 0 THEN 1 ELSE IF n = 1 THEN 10 ELSE IF n = 2 THEN 100
            ELSE IF n = 3 THEN 1000 ELSE IF n = 4 THEN 10000
            ELSE IF n = 5 THEN 100000 ELSE 1000000

DigitChar(d) ==
  CASE d = 0 -> "0" [] d = 1 -> "1" [] d = 2 -> "2" [] d = 3 -> "3" [] d = 4 -> "4"
    [] d = 5 -> "5" [] d = 6 -> "6" [] d = 7 -> "7" [] d = 8 -> "8" [] d = 9 -> "9"

CharDigit(c) ==
  CASE c = "0" -> 0 [] c = "1" -> 1 [] c = "2" -> 2 [] c = "3" -> 3 [] c = "4" -> 4
    [] c = "5" -> 5 [] c = "6" -> 6 [] c = "7" -> 7 [] c = "8" -> 8 [] c = "9" -> 9

RECURSIVE IntChars(_)
IntChars(n) == IF n < 10 THEN <<DigitChar(n)>>
               ELSE IntChars(n \div 10) \o <<DigitChar(n % 10)>>

RECURSIVE PadChars(_, _)
PadChars(n, width) == IF width = 0 THEN <<>>
                      ELSE PadChars(n \div 10, width - 1) \o <<DigitChar(n % 10)>>

RECURSIVE DigitsValue(_)
DigitsValue(cs) == IF cs = <<>> THEN 0
                   ELSE 10 * DigitsValue(SubSeq(cs, 1, Len(cs) - 1)) + CharDigit(Last(cs))

\* Number.prototype.toFixed(places) of a non-negative number: the decimal
\* text rounded to `places` fraction digits
toFixed(m, places) ==
  LET scale == Pow10(places)
      r == (m * scale + Micro \div 2) \div Micro
  IN  IntChars(r \div scale) \o <<".">> \o PadChars(r % scale, places)

\* the numeric value (in millionths) of a decimal text "int.frac"
ParseDecimal(cs) ==
  LET dots == {i \in 1..Len(cs) : cs[i] = "."}
  IN  IF dots = {} THEN DigitsValue(cs) * Micro
      ELSE LET d == CHOOSE i \in dots : TRUE
               frac == SubSeq(cs, d + 1, Len(cs))
           IN  DigitsValue(SubSeq(cs, 1, d - 1)) * Micro
                 + (DigitsValue(frac) * Micro) \div Pow10(Len(frac))

\* ToNumber of a value used as an operand of "/"
ToNumber(v) ==
  IF v.type = "number" THEN v
  ELSE IF v.type = "string" /\ "chars" \in DOMAIN v THEN JsNumber(ParseDecimal(v.chars))
  ELSE NaN

\* v / d
Divide(v, d) ==
  LET n == ToNumber(v)
  IN  IF n.type = "NaN" THEN NaN ELSE JsNumber(n.micro \div d)

\* v || 0 for a numeric v: NaN and 0 are falsy
OrZero(v) == IF v.type = "NaN" \/ v.micro = 0 THEN JsNumber(0) ELSE v

\* strip-ansi: the titles of the model carry no escape sequences
stripAnsi(s) == s

(***************************************************************************)
(* Pure helpers of the reporter.                                           *)
(***************************************************************************)
\* a suite object of the runner; tests and suites stand for tests.length and
\* suites.length, parent is the id of the parent suite (0: no parent)
SuiteObject(id, title, root, tests, suites, parent) ==
  [id |-> id, title |-> title, root |-> root, tests |-> tests, suites |-> suites,
   parent |-> parent, ended |-> FALSE]

\* the validity test with the emptiness condition alone
isInvalidSuite_emptyOnly(suite) == suite.tests = 0 /\ suite.suites = 0

\* the validity test with the title condition alone
isInvalidSuite_titleOnly(suite) == ~suite.root /\ suite.title = ""

isInvalidSuite(suite) ==
  (~suite.root /\ suite.title = "") \/ (suite.tests = 0 /\ suite.suites = 0)

RECURSIVE join(_, _)
join(strs, sep) == IF strs = <<>> THEN ""
                   ELSE IF Len(strs) = 1 THEN strs[1]
                   ELSE strs[1] \o sep \o join(Tail(strs), sep)

\* the ancestor walk with the placeholder label for an untitled root
RECURSIVE ancestorTitles_rootLabel(_, _)
ancestorTitles_rootLabel(objs, parent) ==
  IF parent = 0 THEN <<>>
  ELSE ancestorTitles_rootLabel(objs, objs[parent].parent)
         \o (IF objs[parent].title # "" THEN <<objs[parent].title>>
             ELSE IF objs[parent].root THEN <<ROOT_SUITE_NAME>> ELSE <<>>)

\* the loop of getGitLabSuiteClassname: titles.unshift(parent.title) for every
\* ancestor with a truthy title, from test.parent up to the root
RECURSIVE ancestorTitles(_, _)
ancestorTitles(objs, parent) ==
  IF parent = 0 THEN <<>>
  ELSE ancestorTitles(objs, objs[parent].parent)
         \o (IF objs[parent].title # "" THEN <<objs[parent].title>> ELSE <<>>)

getGitLabSuiteClassname(objs, test) == join(ancestorTitles(objs, test.parent), ".")

\* testsuites.at(-1).testsuite is element Len(ts) of the list
lastSuite(ts) == ts[Len(ts)].testsuite

\* oid is the identity of the node object: the suite whose start created it
getTestsuiteData(suite, clock) ==
  LET suiteName == IF suite.root /\ suite.title = "" THEN ROOT_SUITE_NAME
                   ELSE stripAnsi(suite.title)
      attr == [name |-> suiteName,
               timestamp |-> JsNumber(clock * Micro),
               tests |-> suite.tests]
  IN  [testsuite |-> << [_attr |-> attr] >>, oid |-> suite.id]

removeInvalidCharacters(input) == input

\* appendFailure without the diff block: the error objects of the model
\* carry no expected value
appendFailure(testcase, err) ==
  LET message == IF "message" \in DOMAIN err /\ err.message # "" THEN err.message
                 ELSE IF "inspect" \in DOMAIN err THEN err.inspect
                 ELSE ""
      failureMessage == IF "stack" \in DOMAIN err /\ err.stack # "" THEN err.stack
                        ELSE message
      failureElement ==
        [_attr |-> [message |-> removeInvalidCharacters(message),
                    type |-> IF "name" \in DOMAIN err THEN err.name ELSE ""],
         _cdata |-> removeInvalidCharacters(failureMessage)]
  IN  [testcase |-> Append(testcase.testcase, [failure |-> failureElement])]

getTestcaseData(objs, test, err) ==
  LET name == stripAnsi(test.title)
      classname == stripAnsi(getGitLabSuiteClassname(objs, test))
      durationMs == IF "expectedDuration" \in DOMAIN test THEN JsNumber(test.expectedDuration * Micro)
                    ELSE IF "duration" \in DOMAIN test THEN JsNumber(test.duration * Micro)
                    ELSE Undefined
      testcase ==
        [testcase |-> << [_attr |-> [name |-> name,
                                     time |-> IF durationMs = Undefined THEN JsNumber(0)
                                              ELSE Divide(durationMs, MS_TO_SECONDS),
                                     classname |-> classname]] >>]
  IN  IF err # Undefined THEN appendFailure(testcase, err) ELSE testcase

\* a handler that puts the testcase before the testcases of the last SuiteNode
pushCase_unshift(ts, testcase) ==
  [ts EXCEPT ![Len(ts)].testsuite = <<@[1], testcase>> \o Tail(@)]

\* lastSuite().push(testcase)
pushCase(ts, testcase) ==
  [ts EXCEPT ![Len(ts)].testsuite = Append(@, testcase)]

(***************************************************************************)
(* The event handlers, as functions of the list of SuiteNodes.             *)
(***************************************************************************)
\* the suite-start handler that also wants a direct test of the root suite
_onSuiteBegin_rootNeedsTest(ts, suite, clock) ==
  IF ~isInvalidSuite(suite) /\ (suite.root => suite.tests > 0)
  THEN Append(ts, getTestsuiteData(suite, clock)) ELSE ts

\* the suite-start handler with unshift in place of push
_onSuiteBegin_prepends(ts, suite, clock) ==
  IF ~isInvalidSuite(suite) THEN <<getTestsuiteData(suite, clock)>> \o ts ELSE ts

_onSuiteBegin(ts, suite, clock) ==
  IF ~isInvalidSuite(suite) THEN Append(ts, getTestsuiteData(suite, clock)) ELSE ts

(***************************************************************************)
(* The report finalizer.                                                   *)
(***************************************************************************)
\* new LocalDate(timestamp).toISOString().slice(0, -5): a number is epoch
\* milliseconds; a date-time text without zone designator is read as local time
formatTimestamp(timestamp, zone) ==
  IF timestamp.type = "number" THEN IsoString((timestamp.micro \div Micro) \div 1000)
  ELSE IsoString(timestamp.isoSec - zone)

\* the body of the inner loop of getXml for one testcase: the time of the
\* testcase is formatted only while it is a number
finalizeCase(testcase) ==
  LET attr == testcase.testcase[1]._attr
  IN  IF attr.time.type = "number"
      THEN [testcase |-> [testcase.testcase EXCEPT ![1]._attr.time =
                            JsString(toFixed(attr.time.micro, DECIMAL_PLACES))]]
      ELSE testcase

\* Number('skipped' in lastNode) and Number('failure' in lastNode), summed
\* over the cases from index 1 on
RECURSIVE countLast(_, _)
countLast(cases, key) ==
  IF cases = <<>> THEN 0
  ELSE (IF key \in DOMAIN Last(cases[1].testcase) THEN 1 ELSE 0)
         + countLast(Tail(cases), key)

\* the outer loop body with tests recounted from the testcases
finalizeSuite_recountsTests(suite, zone) ==
  LET _suiteAttr == suite.testsuite[1]._attr
      _cases == Tail(suite.testsuite)
      suiteTime == Get(_suiteAttr, "time")
      time == JsString(toFixed(OrZero(Divide(suiteTime, MS_TO_SECONDS)).micro, DECIMAL_PLACES))
      skipped == countLast(_cases, "skipped")
      failures == countLast(_cases, "failure")
      a1 == Put(_suiteAttr, "time", time)
      a2 == Put(a1, "timestamp", formatTimestamp(_suiteAttr.timestamp, zone))
      a3 == Put(Put(a2, "failures", failures), "tests", Len(_cases))
      a4 == IF skipped = 0 THEN Delete(a3, "skipped") ELSE Put(a3, "skipped", skipped)
  IN  [suite EXCEPT !.testsuite =
         << [_attr |-> a4] >> \o [i \in 1..Len(_cases) |-> finalizeCase(_cases[i])]]

\* the outer loop body without the reset of failures and skipped to 0
finalizeSuite_accumulates(suite, zone) ==
  LET _suiteAttr == suite.testsuite[1]._attr
      _cases == Tail(suite.testsuite)
      suiteTime == Get(_suiteAttr, "time")
      time == JsString(toFixed(OrZero(Divide(suiteTime, MS_TO_SECONDS)).micro, DECIMAL_PLACES))
      skipped == (IF "skipped" \in DOMAIN _suiteAttr THEN _suiteAttr.skipped ELSE 0)
                   + countLast(_cases, "skipped")
      failures == (IF "failures" \in DOMAIN _suiteAttr THEN _suiteAttr.failures ELSE 0)
                    + countLast(_cases, "failure")
      a1 == Put(_suiteAttr, "time", time)
      a2 == Put(a1, "timestamp", formatTimestamp(_suiteAttr.timestamp, zone))
      a3 == Put(a2, "failures", failures)
      a4 == IF skipped = 0 THEN Delete(a3, "skipped") ELSE Put(a3, "skipped", skipped)
  IN  [suite EXCEPT !.testsuite =
         << [_attr |-> a4] >> \o [i \in 1..Len(_cases) |-> finalizeCase(_cases[i])]]

\* the outer loop body without the removal of a zero skipped attribute
finalizeSuite_keepsZeroSkipped(suite, zone) ==
  LET _suiteAttr == suite.testsuite[1]._attr
      _cases == Tail(suite.testsuite)
      suiteTime == Get(_suiteAttr, "time")
      time == JsString(toFixed(OrZero(Divide(suiteTime, MS_TO_SECONDS)).micro, DECIMAL_PLACES))
      skipped == countLast(_cases, "skipped")
      failures == countLast(_cases, "failure")
      a1 == Put(_suiteAttr, "time", time)
      a2 == Put(a1, "timestamp", formatTimestamp(_suiteAttr.timestamp, zone))
      a3 == Put(a2, "failures", failures)
      a4 == Put(a3, "skipped", skipped)
  IN  [suite EXCEPT !.testsuite =
         << [_attr |-> a4] >> \o [i \in 1..Len(_cases) |-> finalizeCase(_cases[i])]]

\* the body of the outer loop of getXml for one SuiteNode
finalizeSuite(suite, zone) ==
  LET _suiteAttr == suite.testsuite[1]._attr
      _cases == Tail(suite.testsuite)
      suiteTime == Get(_suiteAttr, "time")
      time == JsString(toFixed(OrZero(Divide(suiteTime, MS_TO_SECONDS)).micro, DECIMAL_PLACES))
      skipped == countLast(_cases, "skipped")
      failures == countLast(_cases, "failure")
      a1 == Put(_suiteAttr, "time", time)
      a2 == Put(a1, "timestamp", formatTimestamp(_suiteAttr.timestamp, zone))
      a3 == Put(a2, "failures", failures)
      a4 == IF skipped = 0 THEN Delete(a3, "skipped") ELSE Put(a3, "skipped", skipped)
  IN  [suite EXCEPT !.testsuite =
         << [_attr |-> a4] >> \o [i \in 1..Len(_cases) |-> finalizeCase(_cases[i])]]

RECURSIVE totalTests(_)
totalTests(ts) == IF ts = <<>> THEN 0
                  ELSE ts[1].testsuite[1]._attr.tests + totalTests(Tail(ts))

RECURSIVE sumAttr(_, _)
sumAttr(ts, key) ==
  IF ts = <<>> THEN 0
  ELSE (IF key \in DOMAIN ts[1].testsuite[1]._attr THEN ts[1].testsuite[1]._attr[key] ELSE 0)
         + sumAttr(Tail(ts), key)

RECURSIVE countCases(_)
countCases(ts) == IF ts = <<>> THEN 0
                  ELSE Len(ts[1].testsuite) - 1 + countCases(Tail(ts))

\* the root record with every total rolled up from the SuiteNodes
rootSuite_sumsSuites(ts, runStats) ==
  LET attr == [name |-> ROOT_TESTSUITES_NAME,
               time |-> JsString(toFixed(OrZero(Divide(JsNumber(runStats.duration * Micro),
                                                        MS_TO_SECONDS)).micro,
                                         DECIMAL_PLACES)),
               tests |-> countCases(ts),
               failures |-> sumAttr(ts, "failures")]
  IN  [_attr |-> IF sumAttr(ts, "skipped") # 0 THEN Put(attr, "skipped", sumAttr(ts, "skipped"))
                 ELSE attr]

\* the synthetic root record; runStats is this._runner.stats
rootSuite(ts, runStats) ==
  LET attr == [name |-> ROOT_TESTSUITES_NAME,
               time |-> JsString(toFixed(OrZero(Divide(JsNumber(runStats.duration * Micro),
                                                        MS_TO_SECONDS)).micro,
                                         DECIMAL_PLACES)),
               tests |-> totalTests(ts),
               failures |-> runStats.failures]
  IN  [_attr |-> IF runStats.pending # 0 THEN Put(attr, "skipped", runStats.pending) ELSE attr]

\* getXml with the root record put in front of the list it was given
getXml_storesRoot(ts, runStats, zone) ==
  LET done == [i \in 1..Len(ts) |-> finalizeSuite(ts[i], zone)]
  IN  [suites |-> << rootSuite(done, runStats) >> \o done,
       doc |-> [testsuites |-> << rootSuite(done, runStats) >> \o done]]

\* getXml: suites is the list after the in-place updates, doc the object
\* handed to toXml
getXml(ts, runStats, zone) ==
  LET done == [i \in 1..Len(ts) |-> finalizeSuite(ts[i], zone)]
  IN  [suites |-> done,
       doc |-> [testsuites |-> << rootSuite(done, runStats) >> \o done]]

(***************************************************************************)
(* The XML builder.  A string is the sequence of its characters; an object *)
(* is the sequence of its entries in insertion order, as Object.entries    *)
(* yields them.  A call returns a string or throws.                        *)
(***************************************************************************)
Null == [type |-> "null"]
JsObject(entries) == [type |-> "object", entries |-> entries]
JsArray(items) == [type |-> "array", items |-> items]
Entry(k, v) == [key |-> k, value |-> v]

\* the typeof operator
typeof(v) == IF v.type \in {"null", "object", "array"} THEN "object" ELSE v.type

\* v[key] of a value that is neither null nor undefined
Prop(v, key) ==
  IF v.type = "object" /\ \E i \in 1..Len(v.entries) : v.entries[i].key = key
  THEN v.entries[CHOOSE i \in 1..Len(v.entries) : v.entries[i].key = key].value
  ELSE Undefined

\* ToBoolean
Truthy(v) ==
  CASE v.type \in {"undefined", "null", "NaN"} -> FALSE
    [] v.type = "string" -> v.chars # <<>>
    [] v.type = "number" -> v.micro # 0
    [] v.type = "boolean" -> v.value
    [] OTHER -> TRUE

\* the characters of a property name
KeyChars(key) ==
  CASE key = "_attr" -> <<"_", "a", "t", "t", "r">>
    [] key = "_cdata" -> <<"_", "c", "d", "a", "t", "a">>
    [] OTHER -> <<key>>

\* what a call yields: the string it returns, or the TypeError it throws
Returns(cs) == [threw |-> FALSE, xml |-> cs]
Throws == [threw |-> TRUE, error |-> "TypeError"]

\* the concatenation of the strings of a sequence of calls, unless one threw
RECURSIVE Concat(_)
Concat(rs) ==
  IF rs = <<>> THEN Returns(<<>>)
  ELSE LET rest == Concat(Tail(rs))
       IN  IF rs[1].threw \/ rest.threw THEN Throws
           ELSE Returns(rs[1].xml \o rest.xml)

RECURSIVE Flatten(_)
Flatten(ss) == IF ss = <<>> THEN <<>> ELSE ss[1] \o Flatten(Tail(ss))

AMP == <<"&", "a", "m", "p", ";">>
LT == <<"&", "l", "t", ";">>
GT == <<"&", "g", "t", ";">>
QUOT == <<"&", "q", "u", "o", "t", ";">>
APOS == <<"&", "a", "p", "o", "s", ";">>

\* the entries of XML_ENTITIES, in the order of the object literal
XML_ENTITIES ==
  << [char |-> "&", entity |-> AMP],
     [char |-> "<", entity |-> LT],
     [char |-> ">", entity |-> GT],
     [char |-> "\"", entity |-> QUOT],
     [char |-> "'", entity |-> APOS] >>

\* String.prototype.replaceAll(char, entity)
replaceAll(cs, char, entity) ==
  Flatten([i \in 1..Len(cs) |-> IF cs[i] = char THEN entity ELSE <<cs[i]>>])

RECURSIVE replaceEach(_, _)
replaceEach(cs, entities) ==
  IF entities = <<>> THEN cs
  ELSE replaceEach(replaceAll(cs, entities[1].char, entities[1].entity), Tail(entities))

\* String(str) of a string or of a non-negative integer
StringOf(str) == IF str.type = "number" THEN IntChars(str.micro \div Micro) ELSE str.chars

\* the entities applied with "&" last
escapeXml_ampLast(str) ==
  IF str.type \in {"null", "undefined"} THEN <<>>
  ELSE replaceEach(StringOf(str), Tail(XML_ENTITIES) \o <<XML_ENTITIES[1]>>)

escapeXml(str) ==
  IF str.type \in {"null", "undefined"} THEN <<>>
  ELSE replaceEach(StringOf(str), XML_ENTITIES)

COMPACT_MAX_LENGTH == 80
INITIAL_DEPTH == 0
\* DEFAULTS.INDENT
INDENT == <<" ", " ">>
\* the declaration line, with DEFAULTS.VERSION and DEFAULTS.ENCODING
XmlDeclaration ==
  <<"<", "?", "x", "m", "l", " ", "v", "e", "r", "s", "i", "o", "n", "=", "\"", "1", ".", "0", "\"", " ", "e", "n", "c", "o", "d", "i", "n", "g", "=", "\"", "U", "T", "F", "-", "8", "\"", "?", ">", "\n">>

\* String.prototype.repeat
RECURSIVE repeat(_, _)
repeat(cs, n) == IF n = 0 THEN <<>> ELSE cs \o repeat(cs, n - 1)

IsSpace(c) == c \in {" ", "\n", "\t"}

\* String.prototype.trim
RECURSIVE trim(_)
trim(cs) ==
  IF cs = <<>> THEN <<>>
  ELSE IF IsSpace(cs[1]) THEN trim(Tail(cs))
  ELSE IF IsSpace(Last(cs)) THEN trim(SubSeq(cs, 1, Len(cs) - 1))
  ELSE cs

\* String.prototype.includes for a single character
includes(cs, c) == \E i \in 1..Len(cs) : cs[i] = c

\* options.indent || DEFAULTS.INDENT
indentOf(options) == IF Truthy(options.indent) THEN options.indent.chars ELSE INDENT

\* Object.entries(attr).map(([k, v]) => ` ${k}="${escapeXml(v)}"`).join('')
attributesOf(attr) ==
  Flatten([i \in 1..Len(attr.entries) |->
             <<" ">> \o KeyChars(attr.entries[i].key) \o <<"=", "\"">>
               \o escapeXml(attr.entries[i].value) \o <<"\"">>])

\* items.some(item => typeof item === 'object' && !item._attr): reading
\* _attr of null throws; "true", "false" or "throw"
RECURSIVE someWithoutAttr(_)
someWithoutAttr(items) ==
  IF items = <<>> THEN "false"
  ELSE IF typeof(items[1]) # "object" THEN someWithoutAttr(Tail(items))
  ELSE IF items[1].type = "null" THEN "throw"
  ELSE IF ~Truthy(Prop(items[1], "_attr")) THEN "true"
  ELSE someWithoutAttr(Tail(items))

\* value.length > 0 && value[0]?._attr && value.slice(1).some(...)
hasWrapperPattern(items) ==
  IF Len(items) = 0 THEN "false"
  ELSE IF items[1].type \in {"null", "undefined"} THEN "false"
  ELSE IF ~Truthy(Prop(items[1], "_attr")) THEN "false"
  ELSE someWithoutAttr(Tail(items))

openTag(tagName, attributes) == <<"<">> \o KeyChars(tagName) \o attributes \o <<">">>
closeTag(tagName) == <<"<", "/">> \o KeyChars(tagName) \o <<">">>

\* `${indentStr}<${tagName}/>\n`
selfClosing(indentStr, tagName) ==
  indentStr \o <<"<">> \o KeyChars(tagName) \o <<"/", ">", "\n">>

\* the element without content, written as a self-closing tag with attributes
emptyElement_selfClosing(indentStr, tagName, attributes) ==
  indentStr \o <<"<">> \o KeyChars(tagName) \o attributes \o <<"/", ">", "\n">>

\* `${indentStr}<${tagName}${attributes}>\n${indentStr}</${tagName}>\n`
emptyElement(indentStr, tagName, attributes) ==
  indentStr \o openTag(tagName, attributes) \o <<"\n">>
    \o indentStr \o closeTag(tagName) \o <<"\n">>

\* a compact test that lets content of COMPACT_MAX_LENGTH characters pass
isCompact_atMost(trimmedInner) ==
  ~includes(trimmedInner, "\n") /\ Len(trimmedInner) <= COMPACT_MAX_LENGTH

\* the test of buildXmlElement for the one-line form
isCompact(trimmedInner) ==
  ~includes(trimmedInner, "\n") /\ Len(trimmedInner) < COMPACT_MAX_LENGTH

RECURSIVE buildXml(_, _, _)
RECURSIVE buildXmlElement(_, _, _, _)

\* the body of the loop of buildXml for one entry of obj
buildXmlEntry(key, value, options, depth) ==
  IF key = "_attr" THEN Returns(<<>>)
  ELSE IF value.type = "array"
  THEN LET wrapper == hasWrapperPattern(value.items)
       IN  IF wrapper = "throw" THEN Throws
           ELSE IF wrapper = "true"
           THEN LET indentStr == repeat(indentOf(options), depth)
                    attributes == attributesOf(Prop(value.items[1], "_attr"))
                    childrenXml == Concat([i \in 1..(Len(value.items) - 1) |->
                                             buildXml(value.items[i + 1], options, depth + 1)])
                IN  IF childrenXml.threw THEN Throws
                    ELSE Returns(indentStr \o openTag(key, attributes) \o <<"\n">>
                                   \o childrenXml.xml
                                   \o indentStr \o closeTag(key) \o <<"\n">>)
           ELSE Concat([i \in 1..Len(value.items) |->
                          buildXmlElement(key, value.items[i], options, depth)])
  ELSE buildXmlElement(key, value, options, depth)

buildXml(obj, options, depth) ==
  IF obj.type = "array"
  THEN Concat([i \in 1..Len(obj.items) |-> buildXml(obj.items[i], options, depth)])
  ELSE IF typeof(obj) # "object" \/ obj.type = "null" THEN Returns(escapeXml(obj))
  ELSE Concat([i \in 1..Len(obj.entries) |->
                 buildXmlEntry(obj.entries[i].key, obj.entries[i].value, options, depth)])

buildXmlElement(tagName, content, options, depth) ==
  LET indentStr == repeat(indentOf(options), depth)
  IN  IF content.type \in {"null", "undefined"} THEN Returns(selfClosing(indentStr, tagName))
      ELSE IF typeof(content) # "object"
      THEN Returns(indentStr \o openTag(tagName, <<>>) \o escapeXml(content)
                     \o closeTag(tagName) \o <<"\n">>)
      ELSE
        LET attributes == IF Truthy(Prop(content, "_attr"))
                          THEN attributesOf(Prop(content, "_attr")) ELSE <<>>
            contentKeys == IF content.type = "array" THEN [i \in 1..Len(content.items) |-> i]
                           ELSE SelectSeq([i \in 1..Len(content.entries) |-> content.entries[i].key],
                                          LAMBDA k : k # "_attr")
        IN  IF Prop(content, "_cdata") # Undefined
            THEN Returns(indentStr \o openTag(tagName, attributes)
                           \o <<"<", "!", "[", "C", "D", "A", "T", "A", "[">>
                           \o Prop(content, "_cdata").chars
                           \o <<"]", "]", ">">> \o closeTag(tagName) \o <<"\n">>)
            ELSE IF Len(contentKeys) = 0
            THEN Returns(emptyElement(indentStr, tagName, attributes))
            ELSE
              LET innerXml == buildXml(content, options, depth + 1)
              IN  IF innerXml.threw THEN Throws
                  ELSE LET trimmedInner == trim(innerXml.xml)
                       IN  IF isCompact(trimmedInner)
                           THEN Returns(indentStr \o openTag(tagName, attributes)
                                          \o trimmedInner \o closeTag(tagName) \o <<"\n">>)
                           ELSE Returns(indentStr \o openTag(tagName, attributes) \o <<"\n">>
                                          \o innerXml.xml
                                          \o indentStr \o closeTag(tagName) \o <<"\n">>)

toXml(obj, options) ==
  LET body == buildXml(obj, options, INITIAL_DEPTH)
  IN  IF body.threw THEN Throws
      ELSE Returns((IF options.declaration THEN XmlDeclaration ELSE <<>>) \o body.xml)

(***************************************************************************)
(* File path transforms.  The search patterns are those of the documented  *)
(* rules: an optional leading "^" followed by literal characters; a        *)
(* pattern with an unterminated group or character class does not compile. *)
(***************************************************************************)
RegExp(anchored, literal) == [type |-> "regexp", anchored |-> anchored, literal |-> literal]

Count(cs, c) == Cardinality({i \in 1..Len(cs) : cs[i] = c})

\* new RegExp(source) throws a SyntaxError
RegExpThrows(source) ==
  \/ Count(source, "(") # Count(source, ")")
  \/ Count(source, "[") # Count(source, "]")

\* new RegExp(source) of a source that compiles
newRegExp(source) ==
  IF source # <<>> /\ source[1] = "^" THEN RegExp(TRUE, Tail(source))
  ELSE RegExp(FALSE, source)

MatchAt(cs, i, literal) ==
  /\ i + Len(literal) - 1 <= Len(cs)
  /\ SubSeq(cs, i, i + Len(literal) - 1) = literal

\* the index of the leftmost match of the pattern in cs, 0 if there is none
firstMatch(cs, pattern) ==
  LET starts == IF pattern.anchored THEN {1} ELSE 1..(Len(cs) + 1)
      found == {i \in starts : MatchAt(cs, i, pattern.literal)}
  IN  IF found = {} THEN 0 ELSE CHOOSE i \in found : \A j \in found : i <= j

\* String.prototype.replace(pattern, replacement) for a pattern without the
\* g flag: the leftmost match alone is replaced
replace(cs, pattern, replacement) ==
  LET i == firstMatch(cs, pattern)
  IN  IF i = 0 THEN cs
      ELSE SubSeq(cs, 1, i - 1) \o replacement
             \o SubSeq(cs, i + Len(pattern.literal), Len(cs))

\* the body of the map of compileFilePathTransforms with its try / catch
compileTransform(transform) ==
  IF transform.search.type # "string" \/ transform.replace.type # "string"
  THEN [pattern |-> Null, replace |-> transform.replace, raw |-> transform,
        error |-> "TypeError"]
  ELSE IF RegExpThrows(transform.search.chars)
  THEN [pattern |-> Null, replace |-> transform.replace, raw |-> transform,
        error |-> "SyntaxError"]
  ELSE [pattern |-> newRegExp(transform.search.chars), replace |-> transform.replace,
        raw |-> transform]

compileFilePathTransforms(transforms) ==
  [i \in 1..Len(transforms) |-> compileTransform(transforms[i])]

\* the loop with every rule applied to the path the loop started with
RECURSIVE applyFilePathTransforms_parallel(_, _)
applyFilePathTransforms_parallel(filePath, transforms) ==
  IF transforms = <<>> THEN filePath
  ELSE LET rest == applyFilePathTransforms_parallel(filePath, Tail(transforms))
           here == IF ~Truthy(transforms[1].pattern) THEN filePath
                   ELSE replace(filePath, transforms[1].pattern, transforms[1].replace.chars)
       IN  IF rest # filePath THEN rest ELSE here

\* the loop with break in place of continue
RECURSIVE applyFilePathTransforms_stopsAtBroken(_, _)
applyFilePathTransforms_stopsAtBroken(filePath, transforms) ==
  IF transforms = <<>> THEN filePath
  ELSE IF ~Truthy(transforms[1].pattern) THEN filePath
  ELSE applyFilePathTransforms_stopsAtBroken(
         replace(filePath, transforms[1].pattern, transforms[1].replace.chars),
         Tail(transforms))

\* the loop of appendFileAttribute over this._options.filePathTransforms
RECURSIVE applyFilePathTransforms(_, _)
applyFilePathTransforms(filePath, transforms) ==
  IF transforms = <<>> THEN filePath
  ELSE IF ~Truthy(transforms[1].pattern)
  THEN applyFilePathTransforms(filePath, Tail(transforms))
  ELSE applyFilePathTransforms(
         replace(filePath, transforms[1].pattern, transforms[1].replace.chars),
         Tail(transforms))

\* the segments of a path between its "/" separators
RECURSIVE Segments(_, _)
Segments(cs, current) ==
  IF cs = <<>> THEN (IF current = <<>> THEN <<>> ELSE <<current>>)
  ELSE IF cs[1] = "/"
  THEN (IF current = <<>> THEN <<>> ELSE <<current>>) \o Segments(Tail(cs), <<>>)
  ELSE Segments(Tail(cs), Append(current, cs[1]))

RECURSIVE JoinPath(_)
JoinPath(segs) ==
  IF segs = <<>> THEN <<>>
  ELSE IF Len(segs) = 1 THEN segs[1]
  ELSE segs[1] \o <<"/">> \o JoinPath(Tail(segs))

isAbsolute(cs) == cs # <<>> /\ cs[1] = "/"

\* path.relative(from, to) of two absolute paths
relative(from, to) ==
  LET f == Segments(from, <<>>)
      t == Segments(to, <<>>)
      same == {k \in 0..Len(f) : k <= Len(t) /\ SubSeq(f, 1, k) = SubSeq(t, 1, k)}
      common == CHOOSE k \in same : \A j \in same : j <= k
  IN  JoinPath([i \in 1..(Len(f) - common) |-> <<".", ".">>] \o SubSeq(t, common + 1, Len(t)))

\* the walk of getTestsuiteData up the parents of a suite without file:
\* the first parent with a file or with an entry in the cache decides
RECURSIVE inheritedFile(_, _, _)
inheritedFile(cache, objs, parent) ==
  IF parent = 0 THEN Undefined
  ELSE IF Truthy(Get(objs[parent], "file")) THEN objs[parent].file
  ELSE IF parent \in DOMAIN cache THEN cache[parent]
  ELSE inheritedFile(cache, objs, objs[parent].parent)

\* a getTestsuiteData that stores the file under the parent suite as well
cacheSuiteFile_propagates(cache, objs, suite) ==
  IF suite.id \in DOMAIN cache THEN cache
  ELSE LET file == IF Truthy(Get(suite, "file")) THEN suite.file
                   ELSE inheritedFile(cache, objs, suite.parent)
       IN  IF suite.parent \in DOMAIN cache
           THEN Put(Put(cache, suite.parent, file), suite.id, file)
           ELSE Put(cache, suite.id, file)

\* what getTestsuiteData leaves in this._suiteFileCache
cacheSuiteFile(cache, objs, suite) ==
  IF suite.id \in DOMAIN cache THEN cache
  ELSE Put(cache, suite.id,
           IF Truthy(Get(suite, "file")) THEN suite.file
           ELSE inheritedFile(cache, objs, suite.parent))

\* the cache after the suite-start handler: getTestsuiteData is called for a
\* valid suite alone
_onSuiteBeginCache(cache, objs, suite) ==
  IF ~isInvalidSuite(suite) THEN cacheSuiteFile(cache, objs, suite) ELSE cache

_onSuiteEnd(ts, suite, clock) ==
  IF ~isInvalidSuite(suite)
  THEN LET testsuite == lastSuite(ts)
           start == testsuite[1]._attr.timestamp
       IN  [ts EXCEPT ![Len(ts)].testsuite[1]._attr =
              Put(@, "time", JsNumber(clock * Micro - start.micro))]
  ELSE ts

onPass(ts, objs, test) == pushCase(ts, getTestcaseData(objs, test, Undefined))

\* the fail handler that does not hand the error to getTestcaseData
onFail_withoutError(ts, objs, test, err) == pushCase(ts, getTestcaseData(objs, test, Undefined))

onFail(ts, objs, test, err) == pushCase(ts, getTestcaseData(objs, test, err))

\* the pending handler registered whatever this._options.includePending is
onPending_always(ts, objs, test, pendingOn) ==
  LET testcase == getTestcaseData(objs, test, Undefined)
  IN  pushCase(ts, [testcase |-> Append(testcase.testcase, [skipped |-> Undefined])])

\* the pending handler is registered only if this._options.includePending
onPending(ts, objs, test, pendingOn) ==
  IF pendingOn
  THEN LET testcase == getTestcaseData(objs, test, Undefined)
       IN  pushCase(ts, [testcase |-> Append(testcase.testcase, [skipped |-> Undefined])])
  ELSE ts

\* cached is this._suiteFileCache.get(test.parent), cwd is process.cwd()
appendFileAttribute(testcase, test, options, cached, cwd) ==
  LET filePath == IF Truthy(Get(test, "file")) THEN test.file ELSE cached
  IN  IF ~Truthy(filePath) THEN testcase
      ELSE LET rel == IF isAbsolute(filePath.chars) THEN relative(cwd, filePath.chars)
                      ELSE filePath.chars
               transformed == IF Len(options.filePathTransforms) > 0
                              THEN applyFilePathTransforms(rel, options.filePathTransforms)
                              ELSE rel
           IN  [testcase |-> [testcase.testcase EXCEPT ![1]._attr =
                                Put(@, "file", JsString(transformed))]]

\* an object with one property
Single(key, value) == [k \in {key} |-> value]

\* Array.isArray(test[key]) && test[key].length > 0
HasLines(test, key) == key \in DOMAIN test /\ Len(test[key]) > 0

Attachment(file) == "[[ATTACHMENT|" \o file \o "]]"

appendSystemOut(testcase, test, options) ==
  LET outputs == IF Truthy(Get(options, "outputs")) /\ HasLines(test, "consoleOutputs")
                 THEN test.consoleOutputs ELSE <<>>
      attached == IF Truthy(Get(options, "attachments")) /\ HasLines(test, "attachments")
                  THEN [i \in 1..Len(test.attachments) |-> Attachment(test.attachments[i])]
                  ELSE <<>>
      systemOutLines == outputs \o attached
  IN  IF Len(systemOutLines) > 0
      THEN [testcase |-> Append(testcase.testcase,
              Single("system-out", removeInvalidCharacters(stripAnsi(join(systemOutLines, "\n")))))]
      ELSE testcase

appendSystemErr(testcase, test, options) ==
  IF Truthy(Get(options, "outputs")) /\ HasLines(test, "consoleErrors")
  THEN [testcase |-> Append(testcase.testcase,
          Single("system-err", removeInvalidCharacters(stripAnsi(join(test.consoleErrors, "\n")))))]
  ELSE testcase

\* test.parent && this._suiteFileCache.get(test.parent)
cachedFile(cache, test) ==
  IF test.parent \in DOMAIN cache THEN cache[test.parent] ELSE Undefined

\* getTestcaseData that appends the failure before the console lines
testcaseOf_failureFirst(objs, test, err, options, cache, cwd) ==
  LET testcase == getTestcaseData(objs, test, Undefined)
      withFile == appendFileAttribute(testcase, test, options, cachedFile(cache, test), cwd)
      withFailure == IF err # Undefined THEN appendFailure(withFile, err) ELSE withFile
  IN  appendSystemErr(appendSystemOut(withFailure, test, options), test, options)

\* getTestcaseData of a test that may carry a file, console lines and
\* attachments: the attribute record, then the file attribute, system-out,
\* system-err and the failure, in the order of the calls
testcaseOf(objs, test, err, options, cache, cwd) ==
  LET testcase == getTestcaseData(objs, test, Undefined)
      withFile == appendFileAttribute(testcase, test, options, cachedFile(cache, test), cwd)
      withErr == appendSystemErr(appendSystemOut(withFile, test, options), test, options)
  IN  IF err # Undefined THEN appendFailure(withErr, err) ELSE withErr

(***************************************************************************)
(* The filePathTransforms option: the normalisation of the pipe-delimited  *)
(* format and JSON.parse, on the characters of the option.  The JSON texts *)
(* are those of arrays, objects, strings, non-negative integers and null.  *)
(***************************************************************************)
SEARCH == <<"s", "e", "a", "r", "c", "h">>
REPLACE == <<"r", "e", "p", "l", "a", "c", "e">>

\* the property a name in a JSON text gives an object
PropertyName(cs) ==
  IF cs = SEARCH THEN "search"
  ELSE IF cs = REPLACE THEN "replace"
  ELSE IF Len(cs) = 1 THEN cs[1]
  ELSE "other"

RECURSIVE skipSpace(_)
skipSpace(cs) == IF cs # <<>> /\ IsSpace(cs[1]) THEN skipSpace(Tail(cs)) ELSE cs

StartsWith(cs, prefix) == Len(cs) >= Len(prefix) /\ SubSeq(cs, 1, Len(prefix)) = prefix

Drop(cs, n) == SubSeq(cs, n + 1, Len(cs))

\* filePathTransforms.split(/\|\s*/).join(',')
RECURSIVE pipesToCommas(_)
pipesToCommas(cs) ==
  IF cs = <<>> THEN <<>>
  ELSE IF cs[1] = "|" THEN <<",">> \o pipesToCommas(skipSpace(Tail(cs)))
  ELSE <<cs[1]>> \o pipesToCommas(Tail(cs))

\* replaceAll(new RegExp(`(<before>)<name>:`, 'g'), `$1"<name>":`)
RECURSIVE quoteName(_, _, _)
quoteName(cs, name, before) ==
  IF cs = <<>> THEN <<>>
  ELSE IF (cs[1] \in before \/ IsSpace(cs[1])) /\ StartsWith(Tail(cs), name \o <<":">>)
  THEN <<cs[1], "\"">> \o name \o <<"\"", ":">>
         \o quoteName(Drop(cs, Len(name) + 2), name, before)
  ELSE <<cs[1]>> \o quoteName(Tail(cs), name, before)

\* content.replaceAll('\\', '\\\\')
RECURSIVE escapeBackslashes(_)
escapeBackslashes(cs) ==
  IF cs = <<>> THEN <<>>
  ELSE IF cs[1] = "\\" THEN <<"\\", "\\">> \o escapeBackslashes(Tail(cs))
  ELSE <<cs[1]>> \o escapeBackslashes(Tail(cs))

IndexOf(cs, c) ==
  IF includes(cs, c) THEN CHOOSE i \in 1..Len(cs) : cs[i] = c /\ \A j \in 1..(i - 1) : cs[j] # c
  ELSE 0

\* replaceAll(/:\s*'([^']*)'/g, ...): a single-quoted value after a colon
\* becomes a double-quoted one with its backslashes doubled
RECURSIVE quoteValues(_)
quoteValues(cs) ==
  IF cs = <<>> THEN <<>>
  ELSE LET open == skipSpace(Tail(cs))
           close == IF open = <<>> THEN 0 ELSE IndexOf(Tail(open), "'")
       IN  IF cs[1] = ":" /\ open # <<>> /\ open[1] = "'" /\ close > 0
           THEN <<":", " ", "\"">> \o escapeBackslashes(SubSeq(Tail(open), 1, close - 1))
                  \o <<"\"">> \o quoteValues(Drop(Tail(open), close))
           ELSE <<cs[1]>> \o quoteValues(Tail(cs))

\* the four rewriting steps of configureDefaults, in their order
normalize(cs) ==
  quoteValues(quoteName(quoteName(pipesToCommas(cs), SEARCH, {"{"}), REPLACE, {"{", ","}))

JsonFail == [ok |-> FALSE]
JsonOk(v, rest) == [ok |-> TRUE, value |-> v, rest |-> rest]

Digits == <<"0", "1", "2", "3", "4", "5", "6", "7", "8", "9">>
IsDigit(c) == \E d \in 1..10 : Digits[d] = c
DigitValue(c) == (CHOOSE d \in 1..10 : Digits[d] = c) - 1

\* the characters of a JSON string after its opening quote
RECURSIVE JsonString(_, _)
JsonString(cs, acc) ==
  IF cs = <<>> \/ cs[1] \in {"\n", "\t"} THEN JsonFail
  ELSE IF cs[1] = "\"" THEN JsonOk(JsString(acc), Tail(cs))
  ELSE IF cs[1] = "\\"
  THEN IF Len(cs) >= 2 /\ cs[2] \in {"\\", "\"", "/"}
       THEN JsonString(Drop(cs, 2), Append(acc, cs[2]))
       ELSE IF Len(cs) >= 2 /\ cs[2] = "n" THEN JsonString(Drop(cs, 2), Append(acc, "\n"))
       ELSE IF Len(cs) >= 2 /\ cs[2] = "t" THEN JsonString(Drop(cs, 2), Append(acc, "\t"))
       ELSE JsonFail
  ELSE JsonString(Tail(cs), Append(acc, cs[1]))

RECURSIVE JsonNumber(_, _)
JsonNumber(cs, n) ==
  IF cs # <<>> /\ IsDigit(cs[1]) THEN JsonNumber(Tail(cs), 10 * n + DigitValue(cs[1]))
  ELSE JsonOk(JsNumber(n * Micro), cs)

RECURSIVE JsonValue(_)
RECURSIVE JsonValueAt(_)
RECURSIVE JsonElements(_, _)
RECURSIVE JsonMembers(_, _)
JsonValueAt(cs) ==
  IF cs = <<>> THEN JsonFail
  ELSE IF cs[1] = "\"" THEN JsonString(Tail(cs), <<>>)
  ELSE IF cs[1] = "["
  THEN IF StartsWith(skipSpace(Tail(cs)), <<"]">>)
       THEN JsonOk(JsArray(<<>>), Tail(skipSpace(Tail(cs))))
       ELSE JsonElements(Tail(cs), <<>>)
  ELSE IF cs[1] = "{"
  THEN IF StartsWith(skipSpace(Tail(cs)), <<"}">>)
       THEN JsonOk(<<>>, Tail(skipSpace(Tail(cs))))
       ELSE JsonMembers(Tail(cs), <<>>)
  ELSE IF cs[1] = "0" THEN JsonOk(JsNumber(0), Tail(cs))
  ELSE IF IsDigit(cs[1]) THEN JsonNumber(cs, 0)
  ELSE IF StartsWith(cs, <<"n", "u", "l", "l">>) THEN JsonOk(Null, Drop(cs, 4))
  ELSE JsonFail

JsonValue(text) == JsonValueAt(skipSpace(text))

\* after an element of an array: a comma and the next element, or the end
JsonElementRest(rest, items) ==
  IF StartsWith(rest, <<",">>) THEN JsonElements(Tail(rest), items)
  ELSE IF StartsWith(rest, <<"]">>) THEN JsonOk(JsArray(items), Tail(rest))
  ELSE JsonFail

JsonElementNext(v, items) ==
  IF ~v.ok THEN JsonFail
  ELSE JsonElementRest(skipSpace(v.rest), Append(items, v.value))

JsonElements(text, items) == JsonElementNext(JsonValue(text), items)

\* after a member of an object: a comma and the next member, or the end
JsonMemberRest(rest, obj) ==
  IF StartsWith(rest, <<",">>) THEN JsonMembers(Tail(rest), obj)
  ELSE IF StartsWith(rest, <<"}">>) THEN JsonOk(obj, Tail(rest))
  ELSE JsonFail

JsonMemberNext(key, v, obj) ==
  IF ~v.ok THEN JsonFail
  ELSE JsonMemberRest(skipSpace(v.rest), Put(obj, PropertyName(key), v.value))

JsonMemberValue(key, colon, obj) ==
  IF ~StartsWith(colon, <<":">>) THEN JsonFail
  ELSE JsonMemberNext(key, JsonValue(Tail(colon)), obj)

JsonMemberColon(name, obj) ==
  IF ~name.ok THEN JsonFail
  ELSE JsonMemberValue(name.value.chars, skipSpace(name.rest), obj)

JsonMemberName(cs, obj) ==
  IF ~StartsWith(cs, <<"\"">>) THEN JsonFail
  ELSE JsonMemberColon(JsonString(Tail(cs), <<>>), obj)

JsonMembers(text, obj) == JsonMemberName(skipSpace(text), obj)

\* JSON.parse(text): the value, or the SyntaxError it throws
JSONparse(text) ==
  LET v == JsonValue(text)
  IN  IF v.ok /\ skipSpace(v.rest) = <<>> THEN [threw |-> FALSE, value |-> v.value]
      ELSE [threw |-> TRUE, name |-> "SyntaxError"]

\* an object of a JSON text is a record of its properties; every other value
\* carries its type
IsPlainObject(v) == "type" \notin DOMAIN v

\* transform?.[key]
RuleProp(transform, key) ==
  IF IsPlainObject(transform) THEN Get(transform, key)
  ELSE IF transform.type = "string" THEN [type |-> "function"]
  ELSE Undefined

Incomplete(transform) ==
  ~Truthy(RuleProp(transform, "search")) \/ ~Truthy(RuleProp(transform, "replace"))

TypeErrorOf(message) == [threw |-> TRUE, name |-> "TypeError", message |-> message]
IndexedTypeError(message, index) ==
  [threw |-> TRUE, name |-> "TypeError", message |-> message, index |-> index]
Parsed(transforms) == [threw |-> FALSE, transforms |-> transforms]

MustBeString == "filePathTransforms must be a string value."
MustBeJson == "filePathTransforms must be valid JSON."
MustHaveBoth == "filePathTransforms must have both 'search' and 'replace' properties."
IndexedMustHaveBoth == "filePathTransforms[index] must have both 'search' and 'replace' properties."
Unsupported == "filePathTransforms has unsupported format"

\* parseFilePathTransforms with a check that stops at the last offending rule
parseFilePathTransforms_lastIndex(input) ==
  LET parsed == JSONparse(input)
  IN  IF parsed.threw THEN TypeErrorOf(MustBeJson)
      ELSE IF ~IsPlainObject(parsed.value) /\ parsed.value.type = "array"
      THEN LET items == parsed.value.items
               bad == {i \in 1..Len(items) : Incomplete(items[i])}
           IN  IF bad # {}
               THEN IndexedTypeError(IndexedMustHaveBoth,
                                     (CHOOSE i \in bad : \A j \in bad : j <= i) - 1)
               ELSE Parsed(items)
      ELSE IF IsPlainObject(parsed.value)
      THEN IF Incomplete(parsed.value) THEN TypeErrorOf(MustHaveBoth)
           ELSE Parsed(<<parsed.value>>)
      ELSE TypeErrorOf(Unsupported)

parseFilePathTransforms(input) ==
  LET parsed == JSONparse(input)
  IN  IF parsed.threw THEN TypeErrorOf(MustBeJson)
      ELSE IF ~IsPlainObject(parsed.value) /\ parsed.value.type = "array"
      THEN LET items == parsed.value.items
               bad == {i \in 1..Len(items) : Incomplete(items[i])}
           IN  IF bad # {}
               THEN IndexedTypeError(IndexedMustHaveBoth,
                                     (CHOOSE i \in bad : \A j \in bad : i <= j) - 1)
               ELSE Parsed(items)
      ELSE IF IsPlainObject(parsed.value)
      THEN IF Incomplete(parsed.value) THEN TypeErrorOf(MustHaveBoth)
           ELSE Parsed(<<parsed.value>>)
      ELSE TypeErrorOf(Unsupported)

JsBoolean(b) == [type |-> "boolean", value |-> b]

MOCHA_FILE == <<"t", "e", "s", "t", "-", "r", "e", "s", "u", "l", "t", "s", ".", "x", "m", "l">>
ATTACHMENTS == JsBoolean(FALSE)
CONSOLE_REPORTER == Null

\* getSetting(value, key, defaultVal) in an environment that sets none of
\* MOCHA_FILE, ATTACHMENTS and CONSOLE_REPORTER
getSetting(value, defaultVal) == IF value # Undefined THEN value ELSE defaultVal

\* the reporterOptions with the settings of configureDefaults resolved
resolved(config, compiled) ==
  [k \in DOMAIN config
          \cup {"threw", "mochaFile", "attachments", "toConsole", "consoleReporter",
                "filePathTransforms"} |->
     CASE k = "threw" -> FALSE
       [] k = "mochaFile" -> getSetting(Get(config, k), JsString(MOCHA_FILE))
       [] k = "attachments" -> getSetting(Get(config, k), ATTACHMENTS)
       [] k = "toConsole" -> JsBoolean(Truthy(Get(config, k)))
       [] k = "consoleReporter" -> getSetting(Get(config, k), CONSOLE_REPORTER)
       [] k = "filePathTransforms" -> compiled
       [] OTHER -> config[k]]

\* configureDefaults: config is the reporterOptions, the result the options
\* the reporter keeps (threw is FALSE) or the TypeError thrown
configureDefaults(config) ==
  LET given == Get(config, "filePathTransforms")
      parsed == parseFilePathTransforms(normalize(given.chars))
  IN  IF ~Truthy(given) THEN resolved(config, compileFilePathTransforms(<<>>))
      ELSE IF given.type # "string" THEN TypeErrorOf(MustBeString)
      ELSE IF parsed.threw THEN parsed
      ELSE resolved(config, compileFilePathTransforms(parsed.transforms))

\* the events the constructor registers a handler for
RunnerEvents(pendingOn) ==
  {"start", "suite", "suite end", "pass", "fail", "end"}
    \cup (IF pendingOn THEN {"pending"} ELSE {})

\* a constructor that registers its handlers before it resolves the options
constructor_registersFirst(config, pendingOn) ==
  LET options == configureDefaults(config)
  IN  IF options.threw
      THEN [threw |-> TRUE, error |-> options, handlers |-> RunnerEvents(pendingOn)]
      ELSE [threw |-> FALSE, options |-> options, handlers |-> RunnerEvents(pendingOn)]

\* the constructor: what it throws or the options it keeps, and the events
\* it has registered a handler for when it is left
constructor(config, pendingOn) ==
  LET options == configureDefaults(config)
  IN  IF options.threw THEN [threw |-> TRUE, error |-> options, handlers |-> {}]
      ELSE [threw |-> FALSE, options |-> options, handlers |-> RunnerEvents(pendingOn)]

(***************************************************************************)
(* The console reporter name.                                              *)
(***************************************************************************)
\* the printable ASCII characters, from the space (code point 32) on; the
\* grave accent (code point 96) is written "grave"
Ascii ==
  <<
     " ", "!", "\"", "#", "$", "%", "&", "'", "(", ")", "*", "+",
     ",", "-", ".", "/", "0", "1", "2", "3", "4", "5", "6", "7",
     "8", "9", ":", ";", "<", "=", ">", "?", "@", "A", "B", "C",
     "D", "E", "F", "G", "H", "I", "J", "K", "L", "M", "N", "O",
     "P", "Q", "R", "S", "T", "U", "V", "W", "X", "Y", "Z", "[",
     "\\", "]", "^", "_", "grave", "a", "b", "c", "d", "e", "f", "g",
     "h", "i", "j", "k", "l", "m", "n", "o", "p", "q", "r", "s",
     "t", "u", "v", "w", "x", "y", "z", "{", "|", "}", "~" >>

\* name.codePointAt(i)
codePointAt(c) == 31 + CHOOSE i \in 1..Len(Ascii) : Ascii[i] = c

SafeCodePoint(c) ==
  \/ (c >= 48 /\ c <= 57) \/ (c >= 65 /\ c <= 90) \/ (c >= 97 /\ c <= 122)
  \/ c = 64 \/ c = 46 \/ c = 95 \/ c = 45 \/ c = 47

isSafeReporterName(name) ==
  IF name.type # "string" \/ Len(name.chars) = 0 THEN FALSE
  ELSE \A i \in 1..Len(name.chars) : SafeCodePoint(codePointAt(name.chars[i]))

\* the names of mocha.reporters the model knows
BuiltInReporters == {<<"s", "p", "e", "c">>, <<"d", "o", "t">>}

\* what the constructor does about this._options.consoleReporter
consoleReporterSource(reporterName) ==
  IF ~Truthy(reporterName) THEN "none"
  ELSE IF reporterName.type = "string" /\ reporterName.chars \in BuiltInReporters THEN "built-in"
  ELSE IF isSafeReporterName(reporterName) THEN "require"
  ELSE "refused"

(***************************************************************************)
(* The failure entry of error objects of any shape.  The fields of the     *)
(* error object are JavaScript values; a call returns a value or throws.   *)
(***************************************************************************)
JsFunction(returns) == [type |-> "function", returns |-> returns]
Returned(value) == [threw |-> FALSE, value |-> value]
Thrown(name, message) == [threw |-> TRUE, name |-> name, message |-> message]

\* the characters of the model that INVALID_CHARACTERS_REGEX matches: the
\* form feed, U+000C
InvalidCharacters == {"\f"}

\* the text of a value: toString() of a value that has the method, and the
\* text that + '' gives
ToChars(v) ==
  CASE v.type = "string" -> v.chars
    [] v.type = "number" -> IntChars(v.micro \div Micro)
    [] v.type = "boolean" -> IF v.value THEN <<"t", "r", "u", "e">>
                             ELSE <<"f", "a", "l", "s", "e">>
    [] v.type = "undefined" -> <<"u", "n", "d", "e", "f", "i", "n", "e", "d">>
    [] v.type = "null" -> <<"n", "u", "l", "l">>
    [] OTHER -> <<"[", "o", "b", "j", "e", "c", "t", " ", "O", "b", "j", "e", "c", "t", "]">>

\* input.replaceAll(INVALID_CHARACTERS_REGEX, '')
replaceAllInvalid(cs) == SelectSeq(cs, LAMBDA c : c \notin InvalidCharacters)

\* removeInvalidCharacters of a JavaScript value: only a string has the
\* method replaceAll
removeInvalidCharactersOf(input) ==
  IF ~Truthy(input) THEN Returned(input)
  ELSE IF input.type # "string"
  THEN Thrown("TypeError", "input.replaceAll is not a function")
  ELSE Returned(JsString(replaceAllInvalid(input.chars)))

\* Base.generateDiff(actual, expected) with colors off, as the lines of the
\* expected and of the actual value
generateDiff(actual, expected) ==
  <<"+">> \o ToChars(expected) \o <<"\n", "-">> \o ToChars(actual)

\* the message of appendFailure
messageOf(err) ==
  IF Truthy(Get(err, "message")) THEN JsString(ToChars(err.message))
  ELSE IF Get(err, "inspect").type = "function"
  THEN JsString(ToChars(err.inspect.returns))
  ELSE JsString(<<>>)

\* a || b
Or(a, b) == IF Truthy(a) THEN a ELSE b

\* failureMessage after the diff block
failureMessageOf(err, message, hideDiff) ==
  IF ~hideDiff /\ Get(err, "expected") # Undefined
  THEN JsString(ToChars(Or(Get(err, "stack"), message)) \o <<"\n">>
                  \o generateDiff(Get(err, "actual"), err.expected))
  ELSE Or(Get(err, "stack"), message)

\* the failure element, or what removeInvalidCharacters throws
failureElementOf(err, cleanMessage, cleanFailureMessage) ==
  IF cleanMessage.threw THEN cleanMessage
  ELSE IF cleanFailureMessage.threw THEN cleanFailureMessage
  ELSE Returned([_attr |-> [message |-> Or(cleanMessage.value, JsString(<<>>)),
                            type |-> Or(Get(err, "name"), JsString(<<>>))],
                 _cdata |-> cleanFailureMessage.value])

\* appendFailure of an error object of any shape: the testcase with the
\* failure child pushed, or what the call throws
pushFailure(testcase, element) ==
  IF element.threw THEN element
  ELSE Returned([testcase |-> Append(testcase.testcase, [failure |-> element.value])])

appendFailureOf(testcase, err, hideDiff) ==
  pushFailure(testcase,
    failureElementOf(err, removeInvalidCharactersOf(messageOf(err)),
      removeInvalidCharactersOf(failureMessageOf(err, messageOf(err), hideDiff))))

(***************************************************************************)
(* The report file.  A path is the sequence of its pieces: the characters  *)
(* of the template and, where a token was replaced, the value put in its   *)
(* place.  A call of the file system either succeeds or throws an error    *)
(* that carries a code and a message.                                      *)
(***************************************************************************)
HASH == <<"[", "h", "a", "s", "h", "]">>
SUITE_FILENAME == <<"[", "s", "u", "i", "t", "e", "F", "i", "l", "e", "n", "a", "m", "e", "]">>
SUITE_NAME == <<"[", "s", "u", "i", "t", "e", "N", "a", "m", "e", "]">>
FILE_NOT_FOUND == "ENOENT"

\* the places where needle starts in cs
Occurrences(cs, needle) ==
  {i \in 1..(Len(cs) - Len(needle) + 1) : SubSeq(cs, i, i + Len(needle) - 1) = needle}

\* String.prototype.includes for a string
includesString(cs, needle) == Occurrences(cs, needle) # {}

\* String.prototype.replace with a string pattern: the first occurrence only
replaceString(cs, needle, with) ==
  IF ~includesString(cs, needle) THEN cs
  ELSE LET at == CHOOSE i \in Occurrences(cs, needle) :
                   \A j \in Occurrences(cs, needle) : i <= j
       IN  SubSeq(cs, 1, at - 1) \o with \o SubSeq(cs, at + Len(needle), Len(cs))

\* the hex digest of the document: one piece that stands for the digest of
\* exactly this document
digest(xml) == <<[sha256 |-> xml]>>

\* whether testsuites[index]?.testsuite[0]?._attr?.[key] is undefined, index
\* counted from 0: no attribute of a SuiteNode is null
attrMissing(ts, index, key) ==
  ~(index + 1 \in 1..Len(ts) /\ key \in DOMAIN ts[index + 1].testsuite[1]._attr)

attrOfSuite(ts, index, key) == ts[index + 1].testsuite[1]._attr[key]

\* the value put in the place of [suiteFilename], a string of the model's
\* characters, and of [suiteName], a name of the model
SuiteFilenameOr(ts, index) ==
  IF attrMissing(ts, index, "file")
  THEN <<"s", "u", "i", "t", "e", "F", "i", "l", "e", "n", "a", "m", "e">>
  ELSE attrOfSuite(ts, index, "file")
SuiteNameOr(ts, index) ==
  IF attrMissing(ts, index, "name")
  THEN <<"s", "u", "i", "t", "e", "N", "a", "m", "e">>
  ELSE <<attrOfSuite(ts, index, "name")>>

withHash(reportFilename, xml) == replaceString(reportFilename, HASH, digest(xml))
withSuiteFilename(reportFilename, ts) ==
  replaceString(reportFilename, SUITE_FILENAME, SuiteFilenameOr(ts, 0))
withSuiteName(reportFilename, ts) ==
  replaceString(reportFilename, SUITE_NAME, SuiteNameOr(ts, 1))

formatReportFilename(options, xml, ts) ==
  withSuiteName(withSuiteFilename(withHash(options.mochaFile.chars, xml), ts), ts)

\* what a call of the file system does
Done == [code |-> "ok"]
NotCalled == [code |-> "not called"]
FsError(code, message) == [code |-> code, message |-> message]

WriteFailed == "Failed to write test results to ${filePath}: ${error.message}"
CouldNotRemove == "Warning: Could not remove existing report file ${mochaFile}: ${error.message}"

\* the message of the catch block of writeXmlToDisk
errorMessage(filePath, cause) ==
  [text |-> WriteFailed, filePath |-> filePath, cause |-> cause]

\* writeXmlToDisk whose catch block logs the failure and returns
writeXmlToDisk_swallows(xml, filePath, mkdirSync, writeFileSync) ==
  IF filePath = <<>>
  THEN [threw |-> FALSE, mkdir |-> NotCalled, write |-> NotCalled,
        written |-> FALSE, logged |-> <<>>]
  ELSE IF mkdirSync # Done
  THEN [threw |-> FALSE, mkdir |-> mkdirSync, write |-> NotCalled, written |-> FALSE,
        logged |-> <<errorMessage(filePath, mkdirSync.message)>>]
  ELSE IF writeFileSync # Done
  THEN [threw |-> FALSE, mkdir |-> Done, write |-> writeFileSync, written |-> FALSE,
        logged |-> <<errorMessage(filePath, writeFileSync.message)>>]
  ELSE [threw |-> FALSE, mkdir |-> Done, write |-> Done, written |-> TRUE, logged |-> <<>>]

\* writeXmlToDisk: mkdirSync and writeFileSync are what the two calls of the
\* file system do when they are made; logged is what console.error got
writeXmlToDisk(xml, filePath, mkdirSync, writeFileSync) ==
  IF filePath = <<>>
  THEN [threw |-> FALSE, mkdir |-> NotCalled, write |-> NotCalled,
        written |-> FALSE, logged |-> <<>>]
  ELSE IF mkdirSync # Done
  THEN [threw |-> TRUE, mkdir |-> mkdirSync, write |-> NotCalled, written |-> FALSE,
        logged |-> <<errorMessage(filePath, mkdirSync.message)>>,
        error |-> [name |-> "Error", message |-> errorMessage(filePath, mkdirSync.message)]]
  ELSE IF writeFileSync # Done
  THEN [threw |-> TRUE, mkdir |-> Done, write |-> writeFileSync, written |-> FALSE,
        logged |-> <<errorMessage(filePath, writeFileSync.message)>>,
        error |-> [name |-> "Error",
                   message |-> errorMessage(filePath, writeFileSync.message)]]
  ELSE [threw |-> FALSE, mkdir |-> Done, write |-> Done, written |-> TRUE,
        logged |-> <<>>]

\* the rest of flush once writeXmlToDisk is left: echoed is whether
\* console.log got the document
\* the calls flush has made when it is left, in the order it made them
stepsOf(wrote, echoed) ==
  <<"getXml", "formatReportFilename", "writeXmlToDisk">>
    \o (IF wrote.mkdir # NotCalled THEN <<"mkdirSync">> ELSE <<>>)
    \o (IF wrote.write # NotCalled THEN <<"writeFileSync">> ELSE <<>>)
    \o (IF echoed THEN <<"console.log">> ELSE <<>>)

\* a flush that echoes the document whatever writeXmlToDisk did
flushed_echoesAfterFailure(r, options, reportFilename, wrote) ==
  [suites |-> r.suites, xml |-> r.doc, reportFilename |-> reportFilename,
   wrote |-> wrote,
   echoed |-> options.toConsole = JsBoolean(TRUE),
   steps |-> stepsOf(wrote, options.toConsole = JsBoolean(TRUE))]

flushed(r, options, reportFilename, wrote) ==
  [suites |-> r.suites, xml |-> r.doc, reportFilename |-> reportFilename,
   wrote |-> wrote,
   echoed |-> ~wrote.threw /\ options.toConsole = JsBoolean(TRUE),
   steps |-> stepsOf(wrote, ~wrote.threw /\ options.toConsole = JsBoolean(TRUE))]

flushTo(r, options, reportFilename, mkdirSync, writeFileSync) ==
  flushed(r, options, reportFilename,
          writeXmlToDisk(r.doc, reportFilename, mkdirSync, writeFileSync))

flushXml(r, options, mkdirSync, writeFileSync) ==
  flushTo(r, options, formatReportFilename(options, r.doc, r.suites),
          mkdirSync, writeFileSync)

\* flush: suites is the list after getXml, xml the document, wrote what
\* writeXmlToDisk did
flush(ts, options, runStats, zone, mkdirSync, writeFileSync) ==
  flushXml(getXml(ts, runStats, zone), options, mkdirSync, writeFileSync)

\* the 'start' handler: unlinkSync is what the removal of the old report does
onStart(options, unlinkSync) ==
  [threw |-> FALSE,
   removed |-> unlinkSync = Done,
   warned |-> IF unlinkSync = Done \/ unlinkSync.code = FILE_NOT_FOUND THEN <<>>
              ELSE <<[text |-> CouldNotRemove, mochaFile |-> options.mochaFile.chars,
                      cause |-> unlinkSync.message]>>]

(***************************************************************************)
(* The run: the runner emits suite, suite end, pass, fail, pending and end *)
(* in nesting order; each action is the dispatch of one event to the       *)
(* handler the constructor registered for it.                              *)
(***************************************************************************)
\* suites.length of a suite: none, or MaxChildren of which any number may run
SuiteCounts == {0, MaxChildren}

\* number of outcome events dispatched so far
outcomes == stats.passes + stats.failures + stats.pending

childrenStarted(objs, parent) ==
  Cardinality({i \in 1..Len(objs) : objs[i].parent = parent})

\* no function has been called directly
NoCall == [fn |-> "none"]

\* the reporter after construction, before the first event of the run
RunInit ==
  /\ suiteObjs = <<>>
  /\ stack = <<>>
  /\ now = 0
  /\ tz = 0
  /\ stats = [passes |-> 0, failures |-> 0, pending |-> 0, duration |-> 0]
  /\ testsuites = <<>>
  /\ returned = <<>>
  /\ suiteFileCache = <<>>

Init ==
  /\ RunInit
  /\ includePending \in BOOLEAN
  /\ call = NoCall
  /\ result = NoCall

\* 'suite' of the root suite: the first event of a run
RootSuiteBegin ==
  /\ suiteObjs = <<>>
  /\ returned = <<>>
  /\ \E title \in RootTitles, tests \in 0..MaxTests, suites \in SuiteCounts :
       LET suite == SuiteObject(1, title, TRUE, tests, suites, 0)
       IN  /\ suiteObjs' = <<suite>>
           /\ stack' = <<1>>
           /\ testsuites' = _onSuiteBegin(testsuites, suite, now)
           /\ suiteFileCache' = _onSuiteBeginCache(suiteFileCache, suiteObjs, suite)
  /\ UNCHANGED <<now, tz, includePending, stats, returned>>
  /\ UNCHANGED callVars

\* 'suite' of a suite nested in the suite that is running
SuiteBegin ==
  /\ stack # <<>>
  /\ Len(suiteObjs) < MaxSuites
  /\ childrenStarted(suiteObjs, Last(stack)) < suiteObjs[Last(stack)].suites
  /\ \E title \in Titles, tests \in 0..MaxTests, suites \in SuiteCounts :
       LET suite == SuiteObject(Len(suiteObjs) + 1, title, FALSE, tests, suites, Last(stack))
       IN  /\ suiteObjs' = Append(suiteObjs, suite)
           /\ stack' = Append(stack, suite.id)
           /\ testsuites' = _onSuiteBegin(testsuites, suite, now)
           /\ suiteFileCache' = _onSuiteBeginCache(suiteFileCache, suiteObjs, suite)
  /\ UNCHANGED <<now, tz, includePending, stats, returned>>
  /\ UNCHANGED callVars

\* 'suite end' of the suite that is running
SuiteEnd ==
  /\ stack # <<>>
  /\ LET suite == suiteObjs[Last(stack)]
     IN  /\ testsuites' = _onSuiteEnd(testsuites, suite, now)
         /\ suiteObjs' = [suiteObjs EXCEPT ![suite.id].ended = TRUE]
  /\ stack' = SubSeq(stack, 1, Len(stack) - 1)
  /\ UNCHANGED <<now, tz, includePending, stats, returned>>
  /\ UNCHANGED suiteFileCache
  /\ UNCHANGED callVars

\* 'pass' of a test of the suite that is running
Pass ==
  /\ stack # <<>>
  /\ outcomes < MaxOutcomes
  /\ suiteObjs[Last(stack)].tests > 0
  /\ \E shape \in PassedTests :
       testsuites' = onPass(testsuites, suiteObjs, Put(shape, "parent", Last(stack)))
  /\ stats' = [stats EXCEPT !.passes = @ + 1]
  /\ UNCHANGED <<suiteObjs, stack, now, tz, includePending, returned>>
  /\ UNCHANGED suiteFileCache
  /\ UNCHANGED callVars

\* 'fail' of a test or of a hook of the suite that is running
Fail ==
  /\ stack # <<>>
  /\ outcomes < MaxOutcomes
  /\ suiteObjs[Last(stack)].tests > 0 \/ suiteObjs[Last(stack)].suites > 0
  /\ \E shape \in FailedTests, err \in Errors :
       testsuites' = onFail(testsuites, suiteObjs, Put(shape, "parent", Last(stack)), err)
  /\ stats' = [stats EXCEPT !.failures = @ + 1]
  /\ UNCHANGED <<suiteObjs, stack, now, tz, includePending, returned>>
  /\ UNCHANGED suiteFileCache
  /\ UNCHANGED callVars

\* 'pending' of a test of the suite that is running
Pending ==
  /\ stack # <<>>
  /\ outcomes < MaxOutcomes
  /\ suiteObjs[Last(stack)].tests > 0
  /\ \E shape \in PendingTests :
       testsuites' = onPending(testsuites, suiteObjs, Put(shape, "parent", Last(stack)),
                               includePending)
  /\ stats' = [stats EXCEPT !.pending = @ + 1]
  /\ UNCHANGED <<suiteObjs, stack, now, tz, includePending, returned>>
  /\ UNCHANGED suiteFileCache
  /\ UNCHANGED callVars

\* time passes between two events of a run
Tick ==
  /\ returned = <<>>
  /\ now < MaxNow
  /\ now' = now + 1
  /\ UNCHANGED <<suiteObjs, stack, tz, includePending, stats, testsuites, returned>>
  /\ UNCHANGED suiteFileCache
  /\ UNCHANGED callVars

\* 'end': the stats collector sets the duration of the run (the run started
\* at time 0), then flush(testsuites) stores what getXml returns
RunEnd ==
  /\ stack = <<>>
  /\ returned = <<>>
  /\ stats' = [stats EXCEPT !.duration = now]
  /\ LET r == getXml(testsuites, stats', tz)
     IN  /\ testsuites' = r.suites
         /\ returned' = <<r.doc>>
  /\ UNCHANGED <<suiteObjs, stack, now, tz, includePending>>
  /\ UNCHANGED suiteFileCache
  /\ UNCHANGED callVars

\* a further call of getXml on the list the run has built
GetXmlAgain ==
  /\ returned # <<>>
  /\ Len(returned) < MaxXmlCalls
  /\ \E zone \in (IF Len(returned) = 1 THEN TzOffsets ELSE {tz}) :
       /\ tz' = zone
       /\ LET r == getXml(testsuites, stats, zone)
          IN  /\ testsuites' = r.suites
              /\ returned' = Append(returned, r.doc)
  /\ UNCHANGED <<suiteObjs, stack, now, includePending, stats>>
  /\ UNCHANGED suiteFileCache
  /\ UNCHANGED callVars

Next ==
  \/ RootSuiteBegin
  \/ SuiteBegin
  \/ SuiteEnd
  \/ Pass
  \/ Fail
  \/ Pending
  \/ Tick
  \/ RunEnd
  \/ GetXmlAgain

Spec == Init /\ [][Next]_vars

(***************************************************************************)
(* Direct calls of the functions the XML builder exports, one per          *)
(* behaviour, on trees built from the items below.                         *)
(***************************************************************************)
AttrA == JsObject(<<Entry("a", JsString(<<"1">>))>>)
AttrEscaped == JsObject(<<Entry("a", JsString(<<"<", "&">>))>>)
TextV == JsString(<<"v">>)
AttrOnlyItem == JsObject(<<Entry("_attr", AttrA)>>)
AttrCdataItem == JsObject(<<Entry("_attr", AttrA), Entry("_cdata", JsString(<<"x">>))>>)
AttrChildItem == JsObject(<<Entry("_attr", AttrA), Entry("c", TextV)>>)
PlainItem == JsObject(<<Entry("c", TextV)>>)
NullChildItem == JsObject(<<Entry("c", Null)>>)

FirstItems == {AttrOnlyItem, AttrCdataItem, AttrChildItem, PlainItem, Null, TextV}
LaterItems == {PlainItem, NullChildItem, AttrOnlyItem, Null, TextV}
XmlArrays ==
  {<<>>} \cup {<<first>> \o rest : first \in FirstItems,
                                  rest \in UNION {[1..n -> LaterItems] : n \in 0..(MaxItems - 1)}}
\* records whose one child renders to COMPACT_MAX_LENGTH - 1 and to
\* COMPACT_MAX_LENGTH characters: <c>, the text and </c>
TextOfLength(n) == JsString([i \in 1..n |-> "x"])
LongChildItems ==
  {JsObject(<<Entry("c", TextOfLength(n))>>) :
     n \in {COMPACT_MAX_LENGTH - 8, COMPACT_MAX_LENGTH - 7}}
\* records whose content renders with a newline in it
TwoChildrenItem == JsObject(<<Entry("c", TextV), Entry("d", TextV)>>)
TwoLinesItem == JsObject(<<Entry("c", JsString(<<"v", "\n", "w">>))>>)

XmlContents ==
  {Null, Undefined, TextV, AttrOnlyItem, AttrCdataItem, AttrChildItem, PlainItem,
   JsObject(<<>>), JsObject(<<Entry("_attr", JsObject(<<>>))>>),
   JsObject(<<Entry("_attr", AttrEscaped)>>), TwoChildrenItem, TwoLinesItem}
    \cup LongChildItems
TagNames == {"k", "c"}
XmlOptions == {[declaration |-> d, indent |-> i] :
                 d \in BOOLEAN, i \in {Undefined, JsString(<<"\t">>)}}
EscapeAlphabet == {"&", "<", ">", "\"", "'", "l", "t", ";"}
EscapeInputs ==
  {Null, Undefined}
    \cup {JsString(cs) : cs \in UNION {[1..n -> EscapeAlphabet] : n \in 0..MaxStrLen}}

SerializerInit ==
  /\ RunInit
  /\ includePending = FALSE
  /\ call = NoCall
  /\ result = NoCall

CallToXml ==
  /\ call = NoCall
  /\ \E items \in XmlArrays, options \in XmlOptions :
       LET obj == JsObject(<<Entry("k", JsArray(items))>>)
       IN  /\ call' = [fn |-> "toXml", obj |-> obj, options |-> options, depth |-> INITIAL_DEPTH]
           /\ result' = toXml(obj, options)
  /\ UNCHANGED runVars

CallBuildXml ==
  /\ call = NoCall
  /\ \E items \in XmlArrays, options \in XmlOptions, depth \in 0..MaxDepth :
       LET obj == JsObject(<<Entry("k", JsArray(items))>>)
       IN  /\ call' = [fn |-> "buildXml", obj |-> obj, options |-> options, depth |-> depth]
           /\ result' = buildXml(obj, options, depth)
  /\ UNCHANGED runVars

CallBuildXmlElement ==
  /\ call = NoCall
  /\ \E tagName \in TagNames, content \in XmlContents, options \in XmlOptions,
        depth \in 0..MaxDepth :
       /\ call' = [fn |-> "buildXmlElement", tagName |-> tagName, content |-> content,
                   options |-> options, depth |-> depth]
       /\ result' = buildXmlElement(tagName, content, options, depth)
  /\ UNCHANGED runVars

CallEscapeXml ==
  /\ call = NoCall
  /\ \E str \in EscapeInputs :
       /\ call' = [fn |-> "escapeXml", str |-> str]
       /\ result' = Returns(escapeXml(str))
  /\ UNCHANGED runVars

SerializerNext ==
  \/ CallToXml
  \/ CallBuildXml
  \/ CallBuildXmlElement
  \/ CallEscapeXml

SerializerSpec == SerializerInit /\ [][SerializerNext]_vars

(***************************************************************************)
(* Calls of the file path transform functions: the parsed rule lists are   *)
(* what parseFilePathTransforms lets through (search and replace truthy),  *)
(* the compiled list is what configureDefaults stores in the options.      *)
(***************************************************************************)
Rule(searchValue, replaceValue) == [search |-> searchValue, replace |-> replaceValue]

BuildToSrc == Rule(JsString(<<"b", "u", "i", "l", "d">>), JsString(<<"s", "r", "c">>))
SrcToSource == Rule(JsString(<<"s", "r", "c", "/">>), JsString(<<"s", "o", "u", "r", "c", "e", "/">>))
AnchoredRule == Rule(JsString(<<"^", "s", "r", "c", "/">>), JsString(<<"s", "r", "c", "2", "/">>))
UnterminatedRule == Rule(JsString(<<"(">>), JsString(<<"x">>))
NonStringRule == Rule(JsNumber(Micro), JsString(<<"x">>))

ParsedRules == {BuildToSrc, SrcToSource, AnchoredRule, UnterminatedRule, NonStringRule}
ParsedRuleLists == UNION {[1..n -> ParsedRules] : n \in 0..MaxRules}

Cwd == <<"/", "w">>
RelativeFile == JsString(<<"b", "u", "i", "l", "d", "/", "t", "e", "s", "t", ".", "j", "s">>)
SrcFile == JsString(<<"s", "r", "c", "/", "a", ".", "j", "s">>)
AbsoluteFile == JsString(<<"/", "w", "/", "b", "u", "i", "l", "d", "/", "t", ".", "j", "s">>)
OutsideFile == JsString(<<"/", "o", "/", "s", "r", "c", "/", "a", ".", "j", "s">>)
\* the working directory itself as the file of a test
CwdFile == JsString(Cwd)
TestFiles == {Undefined, RelativeFile, SrcFile, AbsoluteFile, OutsideFile, CwdFile}
CachedFiles == {Undefined, SrcFile}

TestcaseOf(title) ==
  [testcase |-> << [_attr |-> [name |-> title, time |-> JsNumber(0),
                               classname |-> title]] >>]

(***************************************************************************)
(* The texts of the filePathTransforms option: rule objects written as     *)
(* JSON.stringify writes them, or in the pipe-delimited format.            *)
(***************************************************************************)
WithProp(obj, key, val) == IF val = Undefined THEN obj ELSE Put(obj, key, val)
RuleObject(searchValue, replaceValue) ==
  WithProp(WithProp(<<>>, "search", searchValue), "replace", replaceValue)

SearchValues ==
  {Undefined, JsString(<<>>), JsString(<<"a">>), JsString(<<"a", "|", "b">>), JsString(<<"o", "'", "c">>),
   JsString(<<"\\", ".">>)}
ReplaceValues == {Undefined, JsString(<<>>), JsString(<<"x">>)}
RuleObjects == {RuleObject(sv, rv) : sv \in SearchValues, rv \in ReplaceValues}
RuleObjectLists == UNION {[1..n -> RuleObjects] : n \in 0..MaxConfigRules}

RECURSIVE Join(_, _)
Join(parts, separator) ==
  IF parts = <<>> THEN <<>>
  ELSE IF Len(parts) = 1 THEN parts[1]
  ELSE parts[1] \o separator \o Join(Tail(parts), separator)

\* the characters of a string between the quotes JSON.stringify puts around it
RECURSIVE JsonEscaped(_)
JsonEscaped(cs) ==
  IF cs = <<>> THEN <<>>
  ELSE IF cs[1] \in {"\\", "\""} THEN <<"\\", cs[1]>> \o JsonEscaped(Tail(cs))
  ELSE <<cs[1]>> \o JsonEscaped(Tail(cs))

Members(obj) ==
  (IF "search" \in DOMAIN obj THEN <<"search">> ELSE <<>>)
    \o (IF "replace" \in DOMAIN obj THEN <<"replace">> ELSE <<>>)

NameChars(key) == IF key = "search" THEN SEARCH ELSE REPLACE

\* JSON.stringify of a rule object
JsonRule(obj) ==
  <<"{">>
    \o Join([i \in 1..Len(Members(obj)) |->
               <<"\"">> \o NameChars(Members(obj)[i]) \o <<"\"", ":", "\"">>
                 \o JsonEscaped(obj[Members(obj)[i]].chars) \o <<"\"">>], <<",">>)
    \o <<"}">>

\* a rule in the pipe-delimited format: {search: '...'| replace: '...'}
PipeRule(obj) ==
  <<"{">>
    \o Join([i \in 1..Len(Members(obj)) |->
               NameChars(Members(obj)[i]) \o <<":", " ", "'">>
                 \o obj[Members(obj)[i]].chars \o <<"'">>], <<"|", " ">>)
    \o <<"}">>

JsonText(rules) ==
  <<"[">> \o Join([i \in 1..Len(rules) |-> JsonRule(rules[i])], <<",">>) \o <<"]">>
PipeText(rules) ==
  <<"[">> \o Join([i \in 1..Len(rules) |-> PipeRule(rules[i])], <<"|">>) \o <<"]">>

\* the text of a list of rules; a list of one rule can be written without brackets
OptionText(rules, format, shape) ==
  IF shape = "object" THEN (IF format = "json" THEN JsonRule(rules[1]) ELSE PipeRule(rules[1]))
  ELSE IF format = "json" THEN JsonText(rules) ELSE PipeText(rules)

Shapes(rules) == IF Len(rules) = 1 THEN {"array", "object"} ELSE {"array"}

\* texts that are no list of rules
OtherTexts == {<<"[", "{">>, <<"5">>, <<"n", "u", "l", "l">>, <<"[", "n", "u", "l", "l", "]">>}
\* option values that are no string
NonStringOptions == {JsArray(<<RuleObject(JsString(<<"a">>), JsString(<<"x">>))>>), JsNumber(Micro)}

CallParseFilePathTransforms ==
  /\ call = NoCall
  /\ \/ \E rules \in RuleObjectLists : \E shape \in Shapes(rules) :
          LET input == OptionText(rules, "json", shape)
          IN  /\ call' = [fn |-> "parseFilePathTransforms", input |-> input,
                          rules |-> rules, shape |-> shape]
              /\ result' = parseFilePathTransforms(input)
     \/ \E input \in OtherTexts :
          /\ call' = [fn |-> "parseFilePathTransforms", input |-> input, shape |-> "other"]
          /\ result' = parseFilePathTransforms(input)
  /\ UNCHANGED runVars

CallConfigureDefaults ==
  /\ call = NoCall
  /\ \/ \E rules \in RuleObjectLists, format \in {"json", "pipe"} : \E shape \in Shapes(rules) :
          LET config == [filePathTransforms |-> JsString(OptionText(rules, format, shape))]
          IN  /\ call' = [fn |-> "configureDefaults", config |-> config, rules |-> rules,
                          format |-> format, shape |-> shape]
              /\ result' = configureDefaults(config)
     \/ \E config \in {<<>>} \cup {[filePathTransforms |-> v] :
                                     v \in NonStringOptions \cup {JsString(t) : t \in OtherTexts}} :
          /\ call' = [fn |-> "configureDefaults", config |-> config, shape |-> "other"]
          /\ result' = configureDefaults(config)
  /\ UNCHANGED runVars

TransformInit ==
  /\ RunInit
  /\ includePending = FALSE
  /\ call = NoCall
  /\ result = NoCall

CallCompileFilePathTransforms ==
  /\ call = NoCall
  /\ \E transforms \in ParsedRuleLists :
       /\ call' = [fn |-> "compileFilePathTransforms", transforms |-> transforms]
       /\ result' = compileFilePathTransforms(transforms)
  /\ UNCHANGED runVars

CallAppendFileAttribute ==
  /\ call = NoCall
  /\ \E transforms \in ParsedRuleLists, file \in TestFiles, cached \in CachedFiles :
       LET test == IF file = Undefined THEN [title |-> "t"] ELSE [title |-> "t", file |-> file]
           options == [filePathTransforms |-> compileFilePathTransforms(transforms)]
           testcase == TestcaseOf(test.title)
       IN  /\ call' = [fn |-> "appendFileAttribute", transforms |-> transforms,
                       test |-> test, cached |-> cached, options |-> options,
                       testcase |-> testcase]
           /\ result' = appendFileAttribute(testcase, test, options, cached, Cwd)
  /\ UNCHANGED runVars

TransformNext ==
  \/ CallCompileFilePathTransforms
  \/ CallAppendFileAttribute
  \/ CallParseFilePathTransforms
  \/ CallConfigureDefaults

TransformSpec == TransformInit /\ [][TransformNext]_vars

(***************************************************************************)
(* The reporter from its construction on: the runner's events reach the    *)
(* handlers the constructor has registered.                                *)
(***************************************************************************)
ValidOption == JsString(<<"{", "s", "e", "a", "r", "c", "h", ":", " ", "'", "a", "'", "|", " ", "r", "e", "p", "l", "a", "c", "e", ":", " ", "'", "x", "'", "}">>)
MissingReplaceOption == JsString(<<"[", "{", "s", "e", "a", "r", "c", "h", ":", " ", "'", "a", "'", "}", "]">>)
InvalidJsonOption == JsString(<<"[", "{">>)
NonStringOption == JsArray(<<RuleObject(JsString(<<"a">>), JsString(<<"x">>))>>)
ReporterOptions ==
  {[filePathTransforms |-> v] :
     v \in {ValidOption, MissingReplaceOption, InvalidJsonOption, NonStringOption}}

Hears(event) == call.fn = "constructor" /\ event \in result.handlers
Listening == call.fn = "constructor" /\ result.handlers # {}

Construct ==
  /\ call = NoCall
  /\ \E config \in ReporterOptions :
       /\ call' = [fn |-> "constructor", config |-> config]
       /\ result' = constructor(config, includePending)
  /\ UNCHANGED runVars

EmitSuite ==
  /\ Hears("suite")
  /\ Len(suiteObjs) < MaxReporterSuites
  /\ (RootSuiteBegin \/ SuiteBegin)
EmitSuiteEnd == Hears("suite end") /\ SuiteEnd
EmitPass == Hears("pass") /\ Pass
EmitFail == Hears("fail") /\ Fail
EmitPending == Listening /\ Pending
EmitEnd == Hears("end") /\ RunEnd
Elapse == call.fn = "constructor" /\ Tick
CallGetXml == Listening /\ GetXmlAgain

ReporterNext ==
  \/ Construct
  \/ EmitSuite
  \/ EmitSuiteEnd
  \/ EmitPass
  \/ EmitFail
  \/ EmitPending
  \/ EmitEnd
  \/ Elapse
  \/ CallGetXml

ReporterSpec == Init /\ [][ReporterNext]_vars

(***************************************************************************)
(* Runs whose suites and tests carry files, console lines and attachments. *)
(* call holds the event the reporter handled last, result the reporter     *)
(* the constructor left.                                                   *)
(***************************************************************************)
CaseOptions == {<<>>, [outputs |-> JsBoolean(TRUE), attachments |-> JsBoolean(TRUE)]}

SuiteFile(id) == JsString(<<"s", Digits[id + 1]>>)
TestFile == JsString(<<"t", ".", "j", "s">>)

\* the suite objects of these runs: a suite has one test, at most one child
\* suite, and a file or none
CaseSuites(id, root, parent) ==
  LET shapes == {SuiteObject(id, title, root, 1, suites, parent) :
                   title \in (IF root THEN RootTitles ELSE Titles), suites \in {0, 1}}
  IN  shapes \cup {Put(suite, "file", SuiteFile(id)) : suite \in shapes}

\* the test objects of these runs
CaseTests ==
  {[title |-> "t", duration |-> 1500],
   [title |-> "t", duration |-> 1500, file |-> TestFile],
   [title |-> "t", duration |-> 1500, consoleOutputs |-> <<"o1", "o2">>,
    consoleErrors |-> <<"e">>, attachments |-> <<"a.png">>]}

CaseInit ==
  /\ RunInit
  /\ includePending = TRUE
  /\ call = NoCall
  /\ result = NoCall

Registered(event) == "handlers" \in DOMAIN result /\ event \in result.handlers

CaseConstruct ==
  /\ call = NoCall
  /\ \E config \in CaseOptions :
       /\ call' = [fn |-> "constructor", config |-> config]
       /\ result' = constructor(config, includePending)
  /\ UNCHANGED runVars

CaseSuiteBegin ==
  /\ Registered("suite")
  /\ returned = <<>>
  /\ Len(suiteObjs) < MaxSuites
  /\ \/ suiteObjs = <<>>
     \/ /\ stack # <<>>
        /\ childrenStarted(suiteObjs, Last(stack)) < suiteObjs[Last(stack)].suites
  /\ \E suite \in CaseSuites(Len(suiteObjs) + 1, suiteObjs = <<>>,
                             IF suiteObjs = <<>> THEN 0 ELSE Last(stack)) :
       /\ suiteObjs' = Append(suiteObjs, suite)
       /\ stack' = Append(stack, suite.id)
       /\ testsuites' = _onSuiteBegin(testsuites, suite, now)
       /\ suiteFileCache' = _onSuiteBeginCache(suiteFileCache, suiteObjs, suite)
       /\ call' = [fn |-> "suite", suite |-> suite]
  /\ UNCHANGED <<now, tz, includePending, stats, returned, result>>

CaseSuiteEnd ==
  /\ Registered("suite end")
  /\ stack # <<>>
  /\ LET suite == suiteObjs[Last(stack)]
     IN  /\ testsuites' = _onSuiteEnd(testsuites, suite, now)
         /\ suiteObjs' = [suiteObjs EXCEPT ![suite.id].ended = TRUE]
         /\ call' = [fn |-> "suite end"]
  /\ stack' = SubSeq(stack, 1, Len(stack) - 1)
  /\ UNCHANGED <<now, tz, includePending, stats, returned, suiteFileCache, result>>

\* a test of the suite that is running can report an outcome
CanReport ==
  /\ stack # <<>>
  /\ outcomes < MaxOutcomes
  /\ suiteObjs[Last(stack)].tests > 0

CasePass ==
  /\ Registered("pass")
  /\ CanReport
  /\ \E shape \in CaseTests :
       LET test == Put(shape, "parent", Last(stack))
       IN  /\ testsuites' = pushCase(testsuites,
                              testcaseOf(suiteObjs, test, Undefined, result.options, suiteFileCache, Cwd))
           /\ call' = [fn |-> "pass", test |-> test]
  /\ stats' = [stats EXCEPT !.passes = @ + 1]
  /\ UNCHANGED <<suiteObjs, stack, now, tz, includePending, returned, suiteFileCache, result>>

CaseFail ==
  /\ Registered("fail")
  /\ CanReport
  /\ \E shape \in CaseTests, err \in Errors :
       LET test == Put(shape, "parent", Last(stack))
       IN  /\ testsuites' = pushCase(testsuites,
                              testcaseOf(suiteObjs, test, err, result.options, suiteFileCache, Cwd))
           /\ call' = [fn |-> "fail", test |-> test, err |-> err]
  /\ stats' = [stats EXCEPT !.failures = @ + 1]
  /\ UNCHANGED <<suiteObjs, stack, now, tz, includePending, returned, suiteFileCache, result>>

CasePending ==
  /\ Registered("pending")
  /\ CanReport
  /\ \E shape \in CaseTests :
       LET test == Put(shape, "parent", Last(stack))
           testcase == testcaseOf(suiteObjs, test, Undefined, result.options, suiteFileCache, Cwd)
       IN  /\ testsuites' = pushCase(testsuites,
                              [testcase |-> Append(testcase.testcase, [skipped |-> Undefined])])
           /\ call' = [fn |-> "pending", test |-> test]
  /\ stats' = [stats EXCEPT !.pending = @ + 1]
  /\ UNCHANGED <<suiteObjs, stack, now, tz, includePending, returned, suiteFileCache, result>>

CaseNext ==
  \/ CaseConstruct
  \/ CaseSuiteBegin
  \/ CaseSuiteEnd
  \/ CasePass
  \/ CaseFail
  \/ CasePending

CaseSpec == CaseInit /\ [][CaseNext]_vars

(***************************************************************************)
(* Calls of isSafeReporterName and the constructor's choice of a console   *)
(* reporter.                                                               *)
(***************************************************************************)
NameAlphabet == {"a", "Z", "5", "@", ".", "_", "-", "/", " ", ";", "\\", "$"}
ReporterNames ==
  {JsString(cs) : cs \in UNION {[1..n -> NameAlphabet] : n \in 0..MaxNameLen}}
    \cup {JsString(<<"s", "p", "e", "c">>), JsString(<<"@", "s", "c", "o", "p", "e", "/", "r", "e", "p", "o", "r", "t", "e", "r">>), JsString(<<".", ".", "/", "u", "n", "s", "a", "f", "e">>),
          Undefined, Null, JsNumber(Micro)}

NameInit ==
  /\ RunInit
  /\ includePending = FALSE
  /\ call = NoCall
  /\ result = NoCall

CallIsSafeReporterName ==
  /\ call = NoCall
  /\ \E name \in ReporterNames :
       /\ call' = [fn |-> "isSafeReporterName", name |-> name]
       /\ result' = isSafeReporterName(name)
  /\ UNCHANGED runVars

ChooseConsoleReporter ==
  /\ call = NoCall
  /\ \E name \in ReporterNames :
       /\ call' = [fn |-> "consoleReporter", name |-> name]
       /\ result' = consoleReporterSource(name)
  /\ UNCHANGED runVars

NameNext ==
  \/ CallIsSafeReporterName
  \/ ChooseConsoleReporter

NameSpec == NameInit /\ [][NameNext]_vars

(***************************************************************************)
(* Runs that remove the old report at 'start' and write the new one at     *)
(* 'end'.  call is the last of the two events with what the calls of the   *)
(* file system have done so far, result the constructed reporter.          *)
(***************************************************************************)
MochaFiles == {SUITE_FILENAME, SUITE_NAME, HASH, <<>>}
FlushOptions ==
  {<<>>, [toConsole |-> JsBoolean(TRUE)],
   [mochaFile |-> JsString(<<>>), toConsole |-> JsBoolean(TRUE)]}
    \cup {[mochaFile |-> JsString(template)] : template \in MochaFiles}

UnlinkOutcomes ==
  {Done, FsError(FILE_NOT_FOUND, "no such file or directory"),
   FsError("EACCES", "permission denied")}
MkdirOutcomes == {Done, FsError("EACCES", "permission denied")}
WriteOutcomes == {Done, FsError("ENOSPC", "no space left on device")}

FlushInit ==
  /\ RunInit
  /\ includePending = FALSE
  /\ call = NoCall
  /\ result = NoCall

FlushConstruct ==
  /\ call = NoCall
  /\ \E config \in FlushOptions :
       /\ call' = [fn |-> "constructor"]
       /\ result' = constructor(config, includePending)
  /\ UNCHANGED runVars

\* 'start' is the first event of a run
FlushStart ==
  /\ call.fn = "constructor"
  /\ "start" \in result.handlers
  /\ \E unlinkSync \in UnlinkOutcomes :
       call' = [fn |-> "start", unlink |-> unlinkSync,
                did |-> onStart(result.options, unlinkSync)]
  /\ UNCHANGED runVars
  /\ UNCHANGED result

RunStarted(event) == call.fn = "start" /\ event \in result.handlers

\* 'suite': the suite objects are those of CaseSuites
FlushSuite ==
  /\ RunStarted("suite")
  /\ returned = <<>>
  /\ Len(suiteObjs) < MaxReporterSuites
  /\ \/ suiteObjs = <<>>
     \/ /\ stack # <<>>
        /\ childrenStarted(suiteObjs, Last(stack)) < suiteObjs[Last(stack)].suites
  /\ \E suite \in CaseSuites(Len(suiteObjs) + 1, suiteObjs = <<>>,
                             IF suiteObjs = <<>> THEN 0 ELSE Last(stack)) :
       /\ suiteObjs' = Append(suiteObjs, suite)
       /\ stack' = Append(stack, suite.id)
       /\ testsuites' = _onSuiteBegin(testsuites, suite, now)
       /\ suiteFileCache' = _onSuiteBeginCache(suiteFileCache, suiteObjs, suite)
  /\ UNCHANGED <<now, tz, includePending, stats, returned>>
  /\ UNCHANGED callVars
FlushSuiteEnd == RunStarted("suite end") /\ SuiteEnd
FlushPass == RunStarted("pass") /\ Pass

\* 'end': the stats collector sets the duration, then flush
FlushEnd ==
  /\ RunStarted("end")
  /\ stack = <<>>
  /\ returned = <<>>
  /\ stats' = [stats EXCEPT !.duration = now]
  /\ \E mkdirSync \in MkdirOutcomes, writeFileSync \in WriteOutcomes :
       LET f == flush(testsuites, result.options, stats', tz, mkdirSync, writeFileSync)
       IN  /\ testsuites' = f.suites
           /\ returned' = <<f.xml>>
           /\ call' = [fn |-> "end", unlink |-> call.unlink, did |-> call.did,
                       reportFilename |-> f.reportFilename,
                       wrote |-> f.wrote, echoed |-> f.echoed, steps |-> f.steps]
  /\ UNCHANGED <<suiteObjs, stack, now, tz, includePending, suiteFileCache, result>>

FlushNext ==
  \/ FlushConstruct
  \/ FlushStart
  \/ FlushSuite
  \/ FlushSuiteEnd
  \/ FlushPass
  \/ FlushEnd

FlushSpec == FlushInit /\ [][FlushNext]_vars

(***************************************************************************)
(* Direct calls of appendFailure with error objects of many shapes: each   *)
(* field is missing or holds a string, a number or an object.              *)
(***************************************************************************)
WithField(objects, key, values) ==
  objects \cup {Put(object, key, value) : object \in objects, value \in values}

Messages ==
  {JsString(<<>>), JsString(<<"m">>), JsString(<<"m", "\f">>), JsNumber(42 * Micro),
   JsObject(<<>>)}
Stacks == {JsString(<<"s", "\f">>), JsNumber(7 * Micro), JsObject(<<>>)}
Names == {JsString(<<"E">>)}
Inspects == {JsFunction(JsString(<<"i">>))}
Expecteds == {JsString(<<"e">>)}

ErrorShapes ==
  WithField(WithField(WithField(WithField(WithField({<<>>},
    "message", Messages), "stack", Stacks), "name", Names), "inspect", Inspects),
    "expected", Expecteds)

\* the testcase that getTestcaseData hands to appendFailure
FailingTestcase == [testcase |-> <<[_attr |-> [name |-> "t", classname |-> ""]]>>]

FailureInit ==
  /\ RunInit
  /\ includePending = FALSE
  /\ call = NoCall
  /\ result = NoCall

CallAppendFailure ==
  /\ \E err \in ErrorShapes, hideDiff \in BOOLEAN :
       /\ call' = [fn |-> "appendFailure", err |-> err, hideDiff |-> hideDiff]
       /\ result' = appendFailureOf(FailingTestcase, err, hideDiff)
  /\ UNCHANGED runVars

FailureNext == CallAppendFailure

FailureSpec == FailureInit /\ [][FailureNext]_vars

(***************************************************************************)
(* The report document: toXml on the trees getXml hands to it.  A tree is  *)
(* the root record followed by the SuiteNodes after finalization; the      *)
(* texts come from the titles, the console lines and the errors of the     *)
(* run, so they hold any character that removeInvalidCharacters lets pass. *)
(***************************************************************************)
MaxDocSuites == 2   \* SuiteNodes of a document
MaxDocCases == 2    \* TestcaseNodes of a SuiteNode

\* XML_OPTIONS of the constants module
XML_OPTIONS == [declaration |-> TRUE, indent |-> JsString(<<" ", " ">>)]

AttrRecord(entries) == JsObject(<<Entry("_attr", JsObject(entries))>>)

\* the testcase of getTestcaseData after getXml has formatted its time, with
\* the children that were pushed to it
TestcaseNode(title, children) ==
  JsObject(<<Entry("testcase",
     JsArray(<<AttrRecord(<<Entry("name", title),
                            Entry("time", JsString(<<"0", ".", "0", "0", "0">>)),
                            Entry("classname", JsString(<<"A">>))>>)>> \o children))>>)

\* the children pushed by appendSystemOut, appendSystemErr, appendFailure and
\* the pending handler
SystemOutChild == JsObject(<<Entry("system-out", JsString(<<"o", "<", "&">>))>>)
SystemErrChild == JsObject(<<Entry("system-err", JsString(<<"e">>))>>)
FailureChild(failureMessage) ==
  JsObject(<<Entry("failure",
     JsObject(<<Entry("_attr", JsObject(<<Entry("message", JsString(<<"m", "\"">>)),
                                          Entry("type", JsString(<<"E">>))>>)),
                Entry("_cdata", failureMessage)>>))>>)
SkippedChild == JsObject(<<Entry("skipped", Null)>>)

\* stack traces: plain text, text with markup in it, and text that holds the
\* characters "]]>" before markup
PlainTrace == JsString(<<"t", "r", "a", "c", "e">>)
MarkupTrace == JsString(<<"<", "testcase", ">", "&">>)
TerminatorTrace == JsString(<<"a", "[", "b", "[", "0", "]", "]", ">", "<", "testcase", ">">>)

DocCases ==
  {TestcaseNode(JsString(<<"t">>), <<>>),
   TestcaseNode(JsString(<<"<", "testcase", ">">>), <<>>),
   TestcaseNode(JsString(<<"t">>), <<SkippedChild>>),
   TestcaseNode(JsString(<<"t">>), <<FailureChild(PlainTrace)>>),
   TestcaseNode(JsString(<<"t">>), <<FailureChild(MarkupTrace)>>),
   TestcaseNode(JsString(<<"t">>), <<FailureChild(TerminatorTrace)>>),
   TestcaseNode(JsString(<<"t">>), <<SystemOutChild, SystemErrChild, FailureChild(PlainTrace)>>)}

\* the last child of a testcase has the given key
lastNodeHas(testcase, key) ==
  Prop(Last(Prop(testcase, "testcase").items), key) # Undefined

countCasesWith(cases, key) ==
  Cardinality({i \in 1..Len(cases) : lastNodeHas(cases[i], key)})

\* the SuiteNode of getTestsuiteData after getXml: time and timestamp
\* formatted, failures and skipped counted, skipped removed when zero
SuiteNode(name, cases) ==
  JsObject(<<Entry("testsuite",
     JsArray(<<AttrRecord(
                 <<Entry("name", name),
                   Entry("timestamp", JsString(<<"1970-01-01T00:00:00">>)),
                   Entry("tests", JsNumber(Len(cases) * Micro)),
                   Entry("time", JsString(<<"0", ".", "0", "0", "0">>)),
                   Entry("failures", JsNumber(countCasesWith(cases, "failure") * Micro))>>
                 \o (IF countCasesWith(cases, "skipped") = 0 THEN <<>>
                     ELSE <<Entry("skipped",
                                  JsNumber(countCasesWith(cases, "skipped") * Micro))>>))>>
               \o cases))>>)

DocSuites ==
  {SuiteNode(JsString(<<"S">>), cases) :
     cases \in UNION {[1..n -> DocCases] : n \in 0..MaxDocCases}}

\* the testcases of a list of SuiteNodes whose last child has the given key;
\* every testcase for the key "testcase"
RECURSIVE docCount(_, _)
docCount(suites, key) ==
  IF suites = <<>> THEN 0
  ELSE (IF key = "testcase" THEN Len(Prop(suites[1], "testsuite").items) - 1
        ELSE countCasesWith(Tail(Prop(suites[1], "testsuite").items), key))
         + docCount(Tail(suites), key)

\* the root record of getXml: the tests of the SuiteNodes added up, the
\* failures and the pending tests the run has counted
rootSuiteOf(suites) ==
  AttrRecord(<<Entry("name", JsString(<<ROOT_TESTSUITES_NAME>>)),
               Entry("time", JsString(<<"0", ".", "0", "0", "0">>)),
               Entry("tests", JsNumber(docCount(suites, "testcase") * Micro)),
               Entry("failures", JsNumber(docCount(suites, "failure") * Micro))>>
             \o (IF docCount(suites, "skipped") = 0 THEN <<>>
                 ELSE <<Entry("skipped", JsNumber(docCount(suites, "skipped") * Micro))>>))

\* the last statements of getXml: the root record before the SuiteNodes,
\* then toXml with XML_OPTIONS
toXmlDocument(suites) ==
  toXml(JsObject(<<Entry("testsuites", JsArray(<<rootSuiteOf(suites)>> \o suites))>>),
        XML_OPTIONS)

DocumentInit ==
  /\ RunInit
  /\ includePending = FALSE
  /\ call = NoCall
  /\ result = NoCall

SerializeReport ==
  /\ call = NoCall
  /\ \E suites \in UNION {[1..n -> DocSuites] : n \in 0..MaxDocSuites} :
       /\ call' = [fn |-> "getXml", testsuites |-> suites]
       /\ result' = toXmlDocument(suites)
  /\ UNCHANGED runVars

DocumentNext == SerializeReport

DocumentSpec == DocumentInit /\ [][DocumentNext]_vars

(***************************************************************************)
(* Properties.                                                             *)
(***************************************************************************)
attrOf(node) == node.testsuite[1]._attr
casesOf(node) == Tail(node.testsuite)
Running == returned = <<>>

\* the suite whose 'suite' event this step dispatches, as a set (empty: none)
Started == IF Len(suiteObjs') = Len(suiteObjs) + 1 THEN {Last(suiteObjs')} ELSE {}
\* the suite whose 'suite end' event this step dispatches, as a set
Ended == {suiteObjs[i] : i \in {j \in 1..Len(suiteObjs) :
                                  Len(suiteObjs') = Len(suiteObjs)
                                  /\ ~suiteObjs[j].ended /\ suiteObjs'[j].ended}}

\* the definition of an invalid suite, as the specification words it
Invalid(suite) ==
  \/ ~suite.root /\ suite.title = ""
  \/ suite.tests = 0 /\ suite.suites = 0

\* the suites whose start was valid, in the order of their suite-start events
ValidStarts == SelectSeq([i \in 1..Len(suiteObjs) |-> i], LAMBDA i : ~Invalid(suiteObjs[i]))

Oids(ts) == [k \in 1..Len(ts) |-> ts[k].oid]

\* C1: a suite-start event of an invalid suite (non-root with empty title, or
\* no tests and no child suites) leaves the top-level list unchanged, and so
\* does the suite-end event of that suite.
C1_InvalidSuiteAppendsNothing ==
  [][ /\ \A suite \in Started : Invalid(suite) => testsuites' = testsuites
      /\ \A suite \in Ended : Invalid(suite) => testsuites' = testsuites ]_vars

\* an untitled nested suite with a test and a titled suite without tests or
\* child suites have both started and ended, and neither has a SuiteNode
C1_Witness ==
  /\ testsuites # <<>>
  /\ \E i, j \in 1..Len(suiteObjs) :
       /\ suiteObjs[i].ended /\ ~suiteObjs[i].root
       /\ suiteObjs[i].title = "" /\ suiteObjs[i].tests > 0
       /\ suiteObjs[j].ended /\ suiteObjs[j].title # ""
       /\ suiteObjs[j].tests = 0 /\ suiteObjs[j].suites = 0
       /\ \A k \in 1..Len(testsuites) : testsuites[k].oid \notin {i, j}

\* C2: the top-level list is append-only and its k-th node was created by
\* the k-th suite-start event of a valid suite; no step reorders, removes or
\* duplicates a node.
C2_AppendOnlyArrivalOrder ==
  [][ /\ Len(testsuites') >= Len(testsuites)
      /\ \A k \in 1..Len(testsuites) : testsuites'[k].oid = testsuites[k].oid
      /\ Oids(testsuites') = ValidStarts' ]_vars

\* two SuiteNodes, the second one created by the third suite-start event (the
\* second suite was invalid), after the report was finalized
C2_Witness ==
  /\ ~Running
  /\ Len(testsuites) = 2
  /\ testsuites[1].oid = 1
  /\ testsuites[2].oid = 3

\* C3: the suite-end event of a valid suite S sets the time of the SuiteNode
\* that S's own suite-start created to now minus that node's timestamp.
C3_SuiteEndTimesOwnNode ==
  [][ \A suite \in Ended :
        ~Invalid(suite) =>
          \E k \in 1..Len(testsuites) :
            /\ testsuites[k].oid = suite.id
            /\ "time" \in DOMAIN attrOf(testsuites'[k])
            /\ attrOf(testsuites'[k]).time =
                 JsNumber(now * Micro - attrOf(testsuites[k]).timestamp.micro) ]_vars

\* C4: every SuiteNode has its time written exactly once before finalize: no
\* node reaches finalize without a time, and no suite-end event changes a
\* time that was already written.
C4_TimeWrittenExactlyOnce ==
  [][ /\ (Running /\ ~Running') =>
           \A k \in 1..Len(testsuites) : "time" \in DOMAIN attrOf(testsuites[k])
      /\ Running' =>
           \A k \in 1..Len(testsuites) :
             "time" \in DOMAIN attrOf(testsuites[k]) =>
               attrOf(testsuites'[k]).time = attrOf(testsuites[k]).time ]_vars

\* C5: the tests attribute of a SuiteNode is the number of immediate tests of
\* its suite, as set at creation; no outcome event and no finalize changes it.
C5_TestsFixedAtCreation ==
  \A k \in 1..Len(testsuites) :
    attrOf(testsuites[k]).tests = suiteObjs[testsuites[k].oid].tests

\* after two calls of getXml, a SuiteNode created with tests = 1 holds two
\* testcases, one of them failed
C5_Witness ==
  /\ Len(returned) = 2
  /\ \E k \in 1..Len(testsuites) :
       /\ attrOf(testsuites[k]).tests = 1
       /\ Len(casesOf(testsuites[k])) = 2
       /\ attrOf(testsuites[k]).failures >= 1

HasFailure(testcase) ==
  \E j \in 2..Len(testcase.testcase) : "failure" \in DOMAIN testcase.testcase[j]
LastIsSkipped(testcase) == "skipped" \in DOMAIN Last(testcase.testcase)
CountCases(node, P(_)) ==
  Cardinality({i \in 1..Len(casesOf(node)) : P(casesOf(node)[i])})
SkippedOf(node) == IF "skipped" \in DOMAIN attrOf(node) THEN attrOf(node).skipped ELSE 0

\* C6: after every call of finalize, failures of a SuiteNode is the number of
\* its testcases with a failure child (at any position) and its skipped count
\* is the number of its testcases whose last child is a skipped marker.
C6_RollupCounts ==
  ~Running =>
    \A k \in 1..Len(testsuites) :
      /\ attrOf(testsuites[k]).failures = CountCases(testsuites[k], HasFailure)
      /\ SkippedOf(testsuites[k]) = CountCases(testsuites[k], LastIsSkipped)

\* after the second call, a SuiteNode with one failed and one skipped testcase
C6_Witness ==
  /\ Len(returned) = 2
  /\ \E k \in 1..Len(testsuites) :
       /\ Len(casesOf(testsuites[k])) = 2
       /\ attrOf(testsuites[k]).failures = 1
       /\ SkippedOf(testsuites[k]) = 1

\* C7: after finalize every SuiteNode has a failures attribute, also when it
\* is 0, and has a skipped attribute exactly if its skipped count is not 0.
C7_FailuresAlwaysSkippedIfNonzero ==
  ~Running =>
    \A k \in 1..Len(testsuites) :
      /\ "failures" \in DOMAIN attrOf(testsuites[k])
      /\ "skipped" \in DOMAIN attrOf(testsuites[k])
           <=> CountCases(testsuites[k], LastIsSkipped) > 0
      /\ "skipped" \in DOMAIN attrOf(testsuites[k]) => attrOf(testsuites[k]).skipped > 0

\* after finalize, one SuiteNode with failures = 0 and no skipped attribute
\* next to one with a skipped attribute
C7_Witness ==
  /\ ~Running
  /\ \E k, m \in 1..Len(testsuites) :
       /\ attrOf(testsuites[k]).failures = 0
       /\ "skipped" \notin DOMAIN attrOf(testsuites[k])
       /\ Len(casesOf(testsuites[k])) = 1
       /\ "skipped" \in DOMAIN attrOf(testsuites[m])

RECURSIVE SumCreationTests(_)
SumCreationTests(ids) ==
  IF ids = <<>> THEN 0 ELSE suiteObjs[ids[1]].tests + SumCreationTests(Tail(ids))

RootRecord(i) == returned[i].testsuites[1]._attr

\* C8: the root record of every call has name "Mocha Tests", tests equal to
\* the sum of the creation-time tests of the SuiteNodes, failures equal to
\* the failure count of the run statistics, and a skipped attribute, equal to
\* the pending count of the run statistics, exactly if that count is not 0.
C8_RootRecord ==
  \A i \in 1..Len(returned) :
    /\ RootRecord(i).name = "Mocha Tests"
    /\ RootRecord(i).tests = SumCreationTests(ValidStarts)
    /\ RootRecord(i).failures = stats.failures
    /\ "skipped" \in DOMAIN RootRecord(i) <=> stats.pending # 0
    /\ "skipped" \in DOMAIN RootRecord(i) => RootRecord(i).skipped = stats.pending

\* a finalized run in which the root's tests differs from the number of
\* testcases and its skipped count is that of a pending test that has no
\* testcase (includePending off)
C8_Witness ==
  /\ ~Running
  /\ ~includePending
  /\ stats.pending = 1
  /\ stats.failures = 1
  /\ RootRecord(1).skipped = 1
  /\ RootRecord(1).tests = 2
  /\ \A k \in 1..Len(testsuites) : "skipped" \notin DOMAIN attrOf(testsuites[k])

\* C9: a second call of getXml leaves every time field that is already a
\* formatted string untouched, on SuiteNodes as on TestcaseNodes.
C9_SecondCallKeepsTimes ==
  [][ (~Running /\ Len(returned') = Len(returned) + 1) =>
        \A k \in 1..Len(testsuites) :
          /\ attrOf(testsuites'[k]).time = attrOf(testsuites[k]).time
          /\ \A i \in 1..Len(casesOf(testsuites[k])) :
               casesOf(testsuites'[k])[i].testcase[1]._attr.time
                 = casesOf(testsuites[k])[i].testcase[1]._attr.time ]_vars

RECURSIVE DotJoin(_)
DotJoin(titles) ==
  IF titles = <<>> THEN ""
  ELSE IF Len(titles) = 1 THEN titles[1]
  ELSE DotJoin(SubSeq(titles, 1, Len(titles) - 1)) \o "." \o Last(titles)

\* the titles of the suites that are running, outermost first, without the
\* empty ones
OpenTitles == SelectSeq([i \in 1..Len(stack) |-> suiteObjs[stack[i]].title],
                        LAMBDA t : t # "")

\* C10: the classname of a testcase is the dot-join, outermost first, of the
\* non-empty titles of the ancestor suites of its test; an untitled root
\* contributes nothing and a titled root contributes its title.
C10_ClassnameOfAncestors ==
  [][ \A k \in 1..Len(testsuites) :
        (Len(testsuites') = Len(testsuites)
         /\ Len(testsuites'[k].testsuite) = Len(testsuites[k].testsuite) + 1) =>
          Last(testsuites'[k].testsuite).testcase[1]._attr.classname
            = DotJoin(OpenTitles) ]_vars

\* under an untitled root, one testcase of a test of the root (empty
\* classname) and one of a test two suites down
C10_Witness ==
  /\ suiteObjs # <<>>
  /\ suiteObjs[1].title = ""
  /\ \E k, m \in 1..Len(testsuites) :
       /\ \E i \in 1..Len(casesOf(testsuites[k])) :
            casesOf(testsuites[k])[i].testcase[1]._attr.classname = ""
       /\ \E i \in 1..Len(casesOf(testsuites[m])) :
            casesOf(testsuites[m])[i].testcase[1]._attr.classname = "A.A"

\* the titles generateSuiteTitle collects for a suite: "Root Suite" for the
\* untitled root, then the titles of the ancestors and the suite's own
RECURSIVE DottedTitles(_)
DottedTitles(id) ==
  IF suiteObjs[id].root /\ suiteObjs[id].title = "" THEN <<ROOT_SUITE_NAME>>
  ELSE (IF suiteObjs[id].parent = 0 THEN <<>> ELSE DottedTitles(suiteObjs[id].parent))
         \o <<suiteObjs[id].title>>

\* C11: the name of a SuiteNode is the dotted hierarchy of its suite: "Root
\* Suite" for the untitled root, followed by every ancestor title and the
\* suite's own title, joined with "."; the untitled root is "Root Suite".
C11_SuiteNameIsDottedHierarchy ==
  \A k \in 1..Len(testsuites) :
    attrOf(testsuites[k]).name = DotJoin(DottedTitles(testsuites[k].oid))

\* the step dispatches a 'pending' event
PendingDispatched == stats'.pending = stats.pending + 1

\* C12: with includePending, a pending event appends to the last SuiteNode
\* one TestcaseNode without failure child whose last child is an empty
\* skipped marker; without includePending it leaves the whole tree unchanged.
C12_PendingAppendsSkippedCase ==
  [][ PendingDispatched =>
        IF includePending
        THEN /\ Len(testsuites') = Len(testsuites)
             /\ \A k \in 1..(Len(testsuites) - 1) : testsuites'[k] = testsuites[k]
             /\ LET before == Last(testsuites).testsuite
                    after == Last(testsuites').testsuite
                IN  /\ Len(after) = Len(before) + 1
                    /\ SubSeq(after, 1, Len(before)) = before
                    /\ ~HasFailure(Last(after))
                    /\ Len(Last(after).testcase) = 2
                    /\ Last(Last(after).testcase) = [skipped |-> Undefined]
        ELSE testsuites' = testsuites ]_vars

\* with includePending, two pending events have left two testcases that end
\* in a skipped marker on one SuiteNode
C12_Witness ==
  /\ includePending
  /\ stats.pending = 2
  /\ \E k \in 1..Len(testsuites) :
       /\ Len(casesOf(testsuites[k])) = 2
       /\ \A i \in 1..2 : LastIsSkipped(casesOf(testsuites[k])[i])

\* a suite has an invalid suite among its proper ancestors
RECURSIVE UnderInvalid(_)
UnderInvalid(id) ==
  /\ suiteObjs[id].parent # 0
  /\ \/ Invalid(suiteObjs[suiteObjs[id].parent])
     \/ UnderInvalid(suiteObjs[id].parent)

HasNode(id) == \E k \in 1..Len(testsuites) : testsuites[k].oid = id

\* C13 as stated: no suite nested below an invalid suite has a SuiteNode.
C13_NoDescendantOfInvalid ==
  \A id \in 1..Len(suiteObjs) : UnderInvalid(id) => ~HasNode(id)

\* C13 as amended: an invalid suite never has a SuiteNode, and a suite nested
\* below an invalid suite has one exactly if it is valid itself.
C13_ValidityIsPerSuite ==
  \A id \in 1..Len(suiteObjs) :
    /\ Invalid(suiteObjs[id]) => ~HasNode(id)
    /\ UnderInvalid(id) => (HasNode(id) <=> ~Invalid(suiteObjs[id]))

\* below an untitled nested suite, which has no SuiteNode, a titled suite
\* with a test has one
C13_Witness ==
  \E id \in 1..Len(suiteObjs) :
    /\ UnderInvalid(id)
    /\ suiteObjs[id].title # "" /\ suiteObjs[id].tests > 0
    /\ HasNode(id)
    /\ ~HasNode(suiteObjs[id].parent)

\* the root is untitled, has no direct test, and a child suite with a test
\* has started
RootWithoutDirectTests ==
  /\ suiteObjs # <<>>
  /\ suiteObjs[1].title = "" /\ suiteObjs[1].tests = 0 /\ suiteObjs[1].suites > 0
  /\ \E id \in 2..Len(suiteObjs) : suiteObjs[id].parent = 1 /\ suiteObjs[id].tests > 0

\* the testsuite elements of the document of call i that carry the root's name
RootElements(i) ==
  {j \in 2..Len(returned[i].testsuites) :
     attrOf(returned[i].testsuites[j]).name = ROOT_SUITE_NAME}

AttrOnly(item) ==
  /\ item.type = "object"
  /\ Len(item.entries) = 1
  /\ item.entries[1].key = "_attr"

\* a plain object without attributes
PlainWithoutAttr(item) ==
  /\ item.type = "object"
  /\ \A i \in 1..Len(item.entries) : item.entries[i].key # "_attr"

\* the condition C15 gives for the wrapper rendering of an array
WrapperExpected(items) ==
  /\ Len(items) > 0
  /\ AttrOnly(items[1])
  /\ \E i \in 2..Len(items) : PlainWithoutAttr(items[i])

\* one wrapper element: tag = key, attributes of item 0, items 1..N at depth + 1
WrapperRendering(key, items, options, depth) ==
  LET indentStr == repeat(indentOf(options), depth)
      body == Concat([i \in 1..(Len(items) - 1) |-> buildXml(items[i + 1], options, depth + 1)])
  IN  IF body.threw THEN Throws
      ELSE Returns(indentStr \o openTag(key, attributesOf(Prop(items[1], "_attr"))) \o <<"\n">>
                     \o body.xml \o indentStr \o closeTag(key) \o <<"\n">>)

\* one sibling element per item, each with the key as tag, at the current depth
SiblingRendering(key, items, options, depth) ==
  Concat([i \in 1..Len(items) |-> buildXmlElement(key, items[i], options, depth)])

\* C15: an array under a key renders as one wrapper element if and only if
\* item 0 is a record of attributes only and a later item is a plain object
\* without attributes; in every other case it renders as one sibling element
\* per item, at the current depth.
C15_WrapperIffAttrOnlyFirst ==
  call.fn \in {"toXml", "buildXml"} =>
    LET key == call.obj.entries[1].key
        items == call.obj.entries[1].value.items
        expected == IF WrapperExpected(items)
                    THEN WrapperRendering(key, items, call.options, call.depth)
                    ELSE SiblingRendering(key, items, call.options, call.depth)
        prefix == IF call.fn = "toXml" /\ call.options.declaration
                  THEN XmlDeclaration ELSE <<>>
    IN  /\ ~result.threw
        /\ ~expected.threw
        /\ result.xml = prefix \o expected.xml

\* a string has "/>" in it
HasSelfClose(cs) == \E i \in 1..(Len(cs) - 1) : cs[i] = "/" /\ cs[i + 1] = ">"

\* C16: for every tag and depth, null or undefined content renders as the
\* self-closing <tag/>, and a record of attributes only renders as an open
\* tag with the attributes and a separate close tag, never self-closing.
C16_NullSelfClosesAttrOnlyOpensAndCloses ==
  call.fn = "buildXmlElement" =>
    LET indentStr == repeat(indentOf(call.options), call.depth)
        tag == KeyChars(call.tagName)
    IN  /\ call.content.type \in {"null", "undefined"} =>
             result = Returns(indentStr \o <<"<">> \o tag \o <<"/", ">", "\n">>)
        /\ AttrOnly(call.content) =>
             /\ ~result.threw
             /\ ~HasSelfClose(result.xml)
             /\ result.xml =
                  indentStr \o <<"<">> \o tag
                    \o attributesOf(call.content.entries[1].value) \o <<">", "\n">>
                    \o indentStr \o <<"<", "/">> \o tag \o <<">", "\n">>

\* an attributes-only record rendered at depth 2 with a tab as indent, its
\* attribute value escaped
C16_Witness ==
  /\ call.fn = "buildXmlElement"
  /\ call.depth = 2
  /\ call.tagName = "k"
  /\ call.content = JsObject(<<Entry("_attr", AttrEscaped)>>)
  /\ call.options.indent = JsString(<<"\t">>)
  /\ result.xml = <<"\t", "\t", "<", "k", " ", "a", "=", "\"", "&", "l", "t", ";",
                    "&", "a", "m", "p", ";", "\"", ">", "\n",
                    "\t", "\t", "<", "/", "k", ">", "\n">>

\* the occurrences of a character sequence replaced by one character, left
\* to right
RECURSIVE Substitute(_, _, _)
Substitute(cs, entity, char) ==
  IF cs = <<>> THEN <<>>
  ELSE IF Len(cs) >= Len(entity) /\ SubSeq(cs, 1, Len(entity)) = entity
  THEN <<char>> \o Substitute(SubSeq(cs, Len(entity) + 1, Len(cs)), entity, char)
  ELSE <<cs[1]>> \o Substitute(Tail(cs), entity, char)

\* the five entities substituted back, &amp; last
Unescape(cs) ==
  Substitute(Substitute(Substitute(Substitute(Substitute(cs,
    LT, "<"), GT, ">"), QUOT, "\""), APOS, "'"), AMP, "&")

\* C17: escapeXml(s) has none of < > " ' in it, and substituting the five
\* entities back, &amp; last, gives s again; null and undefined escape to
\* the empty string.
C17_EscapeRoundTrip ==
  call.fn = "escapeXml" =>
    /\ ~result.threw
    /\ \A i \in 1..Len(result.xml) : result.xml[i] \notin {"<", ">", "\"", "'"}
    /\ call.str.type = "string" => Unescape(result.xml) = call.str.chars
    /\ call.str.type \in {"null", "undefined"} => result.xml = <<>>

\* the entity text "&lt;" is escaped once, to "&amp;lt;"
C17_Witness ==
  /\ call.fn = "escapeXml"
  /\ call.str = JsString(<<"&", "l", "t", ";">>)
  /\ result.xml = <<"&", "a", "m", "p", ";", "l", "t", ";">>

\* the file of the test a call of appendFileAttribute resolved, made relative
\* to the working directory: the path the first rule is given
ResolvedFile ==
  LET filePath == IF Truthy(Get(call.test, "file")) THEN call.test.file ELSE call.cached
  IN  IF isAbsolute(filePath.chars) THEN relative(Cwd, filePath.chars) ELSE filePath.chars

FileResolved ==
  /\ call.fn = "appendFileAttribute"
  /\ Truthy(Get(call.test, "file")) \/ Truthy(call.cached)

\* what one compiled rule makes of a path
RuleOutput(rule, input) ==
  IF rule.pattern = Null THEN input
  ELSE replace(input, rule.pattern, rule.replace.chars)

\* the path after the first i rules: the input of rule i + 1 is the output of rule i
RECURSIVE PathAfter(_, _, _)
PathAfter(rules, path, i) ==
  IF i = 0 THEN path ELSE RuleOutput(rules[i], PathAfter(rules, path, i - 1))

\* C19: the rules are applied to a path in configured order as a sequential
\* composition: the file attribute is the output of the last rule, each rule
\* having been given the output of the rule before it.
C19_RulesComposeSequentially ==
  FileResolved =>
    result.testcase[1]._attr.file =
      JsString(PathAfter(call.options.filePathTransforms, ResolvedFile,
                         Len(call.options.filePathTransforms)))

\* rules [build->src, src/->source/] turn "build/test.js" into "source/test.js",
\* and the two rules swapped give "src/test.js"
C19_Witness ==
  /\ FileResolved
  /\ call.transforms = <<BuildToSrc, SrcToSource>>
  /\ call.test = [title |-> "t", file |-> RelativeFile]
  /\ result.testcase[1]._attr.file = JsString(<<"s", "o", "u", "r", "c", "e", "/", "t", "e", "s", "t", ".", "j", "s">>)
  /\ applyFilePathTransforms(RelativeFile.chars,
                             compileFilePathTransforms(<<SrcToSource, BuildToSrc>>))
       = <<"s", "r", "c", "/", "t", "e", "s", "t", ".", "j", "s">>

\* a parsed rule whose search pattern does not compile
FailsToCompile(rule) ==
  \/ rule.search.type # "string"
  \/ RegExpThrows(rule.search.chars)

Broken(compiled) == compiled.pattern = Null /\ "error" \in DOMAIN compiled

\* the compiled list keeps every parsed rule at its position, the rules
\* that do not compile in a broken state
CompiledAlongParsed(parsed, compiled) ==
  /\ Len(compiled) = Len(parsed)
  /\ \A i \in 1..Len(parsed) :
       /\ compiled[i].raw = parsed[i]
       /\ compiled[i].replace = parsed[i].replace
       /\ FailsToCompile(parsed[i]) <=> Broken(compiled[i])
       /\ ~FailsToCompile(parsed[i]) => compiled[i].pattern.type = "regexp"

IsWorking(compiled) == compiled.pattern # Null

\* C20: a rule whose search pattern fails to compile stays at its position in
\* the compiled list with pattern null and an error recorded, so the compiled
\* list has the length and order of the parsed list; when the rules are applied
\* the broken ones are skipped, the path passing unchanged to the next rule,
\* and the other rules apply in order.
C20_BrokenRuleKeptAndSkipped ==
  /\ call.fn = "compileFilePathTransforms" => CompiledAlongParsed(call.transforms, result)
  /\ FileResolved =>
       /\ CompiledAlongParsed(call.transforms, call.options.filePathTransforms)
       /\ LET working == SelectSeq(call.options.filePathTransforms, IsWorking)
          IN  result.testcase[1]._attr.file =
                JsString(PathAfter(working, ResolvedFile, Len(working)))

\* a rule that does not compile between two rules that both change the path
C20_Witness ==
  /\ FileResolved
  /\ call.transforms = <<BuildToSrc, UnterminatedRule, SrcToSource>>
  /\ call.test = [title |-> "t", file |-> RelativeFile]
  /\ Broken(call.options.filePathTransforms[2])
  /\ result.testcase[1]._attr.file = JsString(<<"s", "o", "u", "r", "c", "e", "/", "t", "e", "s", "t", ".", "j", "s">>)

\* a rule object without a non-empty search or without a non-empty replace
Lacks(rule) ==
  \/ "search" \notin DOMAIN rule
  \/ rule.search.chars = <<>>
  \/ "replace" \notin DOMAIN rule
  \/ rule.replace.chars = <<>>

Offending(rules) == {i \in 1..Len(rules) : Lacks(rules[i])}

\* no value of the rules holds a single quote, which ends a value of the
\* pipe-delimited format
Quotable(rules) ==
  \A i \in 1..Len(rules) : \A key \in DOMAIN rules[i] : ~includes(rules[i][key].chars, "'")

\* a call that parses the text of a list of rules
ParsesRules ==
  \/ call.fn = "parseFilePathTransforms" /\ call.shape # "other"
  \/ call.fn = "configureDefaults" /\ call.shape # "other"
       /\ (call.format = "pipe" => Quotable(call.rules))

\* C21: a configuration in which some rule lacks a non-empty search or a
\* non-empty replace is rejected as a whole and no rule list is produced: for
\* an array the error carries the index of the first offending rule, for a
\* single object it is the message without an index.
C21_IncompleteRuleRejectsAll ==
  (ParsesRules /\ Offending(call.rules) # {}) =>
    /\ result.threw
    /\ result.name = "TypeError"
    /\ DOMAIN result \cap {"transforms", "filePathTransforms"} = {}
    /\ call.shape = "array" =>
         /\ result.message = IndexedMustHaveBoth
         /\ result.index + 1 \in Offending(call.rules)
         /\ \A i \in Offending(call.rules) : result.index + 1 <= i
    /\ call.shape = "object" =>
         /\ result.message = MustHaveBoth
         /\ "index" \notin DOMAIN result

\* the pipe-delimited text of two rules, the second without replace, is
\* rejected naming index 1
C21_Witness ==
  /\ call.fn = "configureDefaults"
  /\ call.shape = "array"
  /\ call.format = "pipe"
  /\ Offending(call.rules) = {2}
  /\ result.threw
  /\ result.index = 1

\* C22: every configuration error of filePathTransforms (a value that is no
\* string, a text that is no JSON, a rule without a field) is raised by the
\* constructor before it registers a handler, so a reporter whose
\* configuration is rejected hears no event, builds no SuiteNode and writes
\* no report.
C22_RejectedBeforeAnyHandler ==
  call.fn = "constructor" =>
    /\ call.config.filePathTransforms
         \in {MissingReplaceOption, InvalidJsonOption, NonStringOption} => result.threw
    /\ result.threw =>
         /\ result.error.name = "TypeError"
         /\ result.handlers = {}
         /\ testsuites = <<>>
         /\ returned = <<>>

\* a reporter rejected for an option that is no string, some time after
C22_Witness ==
  /\ call.fn = "constructor"
  /\ call.config.filePathTransforms = NonStringOption
  /\ result.threw
  /\ result.error.message = MustBeString
  /\ now = MaxNow

\* the rule list JSON.parse reads from the text of the option
JsonRules(text) ==
  LET parsed == JSONparse(text).value
  IN  IF IsPlainObject(parsed) THEN <<parsed>> ELSE parsed.items

\* the rule list a call of configureDefaults accepted
AcceptedRules == [i \in 1..Len(result.filePathTransforms) |-> result.filePathTransforms[i].raw]

\* C23: for every option that is the JSON text of an array, or of a single
\* object, of rules with non-empty string search and replace, the accepted
\* rule list is JSON.parse of the text: as many rules, in the same order, each
\* search and replace unchanged, a '|' or a single quote in a value included.
C23_JsonAcceptedAsParsed ==
  ( /\ call.fn = "configureDefaults"
    /\ call.shape # "other"
    /\ call.format = "json"
    /\ Offending(call.rules) = {} ) =>
    /\ ~result.threw
    /\ AcceptedRules = JsonRules(call.config.filePathTransforms.chars)

\* the reporter has just appended a testcase for the test of the event
OutcomeHandled == call.fn \in {"pass", "fail", "pending"}

\* the testcase the last outcome event appended
AppendedCase == Last(Last(testsuites).testsuite)

\* the file of the nearest suite with a file, from a suite up to the root
RECURSIVE NearestSuiteFile(_, _)
NearestSuiteFile(objs, id) ==
  IF id = 0 THEN Undefined
  ELSE IF "file" \in DOMAIN objs[id] THEN objs[id].file
  ELSE NearestSuiteFile(objs, objs[id].parent)

ResolvedFileOf(objs, test) ==
  IF "file" \in DOMAIN test THEN test.file ELSE NearestSuiteFile(objs, test.parent)

\* C24: the file of a testcase is the test's own file if it has one, else the
\* file of the nearest ancestor suite that has one, from the immediate parent
\* up to the root; without either the testcase has no file attribute.
C24_FileOfTestOrNearestSuite ==
  OutcomeHandled =>
    LET expected == ResolvedFileOf(suiteObjs, call.test)
        attr == AppendedCase.testcase[1]._attr
    IN  IF expected = Undefined THEN "file" \notin DOMAIN attr
        ELSE "file" \in DOMAIN attr /\ attr.file = expected

\* a name has a path-traversal segment
RECURSIVE HasDotDot(_)
HasDotDot(segs) ==
  IF segs = <<>> THEN FALSE ELSE segs[1] = <<".", ".">> \/ HasDotDot(Tail(segs))

AllowedCharacter(c) ==
  \/ \E i \in 17..26 : Ascii[i] = c
  \/ \E i \in 34..59 : Ascii[i] = c
  \/ \E i \in 66..91 : Ascii[i] = c
  \/ c \in {"@", ".", "_", "-", "/"}

\* C26: isSafeReporterName is true for 'spec' and '@scope/reporter' and
\* false for '../unsafe', and false for every name that is empty, not a
\* string, holds a path-traversal segment or a character outside the
\* allow-list; it is true for every other name.
C26_SafeNameHasNoTraversal ==
  call.fn = "isSafeReporterName" =>
    (result <=> /\ call.name.type = "string"
                /\ call.name.chars # <<>>
                /\ \A i \in 1..Len(call.name.chars) : AllowedCharacter(call.name.chars[i])
                /\ ~HasDotDot(Segments(call.name.chars, <<>>)))
FsFailure ==
  IF call.wrote.mkdir \notin {Done, NotCalled} THEN <<call.wrote.mkdir>>
  ELSE IF call.wrote.write \notin {Done, NotCalled} THEN <<call.wrote.write>>
  ELSE <<>>

\* C25: when mkdirSync or writeFileSync fails during flush, the 'end' handler
\* throws an error that names the report path and the message of the failure;
\* the 'start' handler never throws: it warns when the removal of the old
\* report fails for another reason than ENOENT, and is silent otherwise
C25_WriteFailureRaisedRemovalTolerated ==
  /\ (call.fn = "end" /\ FsFailure # <<>>) =>
       /\ call.wrote.threw
       /\ call.wrote.error.message.filePath = call.reportFilename
       /\ call.wrote.error.message.cause = FsFailure[1].message
  /\ call.fn \in {"start", "end"} =>
       /\ ~call.did.threw
       /\ call.did.warned =
            IF call.unlink = Done \/ call.unlink.code = "ENOENT" THEN <<>>
            ELSE <<[text |-> CouldNotRemove,
                    mochaFile |-> result.options.mochaFile.chars,
                    cause |-> call.unlink.message]>>

\* a run that went on to its end after a removal that failed, and whose
\* write of the report failed
C25_Witness ==
  /\ call.fn = "end"
  /\ call.unlink.code = "EACCES"
  /\ testsuites # <<>>
  /\ call.wrote.write.code = "ENOSPC"
  /\ call.wrote.threw

\* the file of the suite whose start created the first SuiteNode
FirstSuiteFile == suiteObjs[testsuites[1].oid].file.chars

\* C28: [suiteFilename] becomes the file of the first SuiteNode and
\* [suiteName] the name of the second SuiteNode when these exist, and the
\* literals suiteFilename and suiteName only when they do not
C28_TokensResolveToSuiteValues ==
  call.fn = "end" =>
    /\ result.options.mochaFile.chars = SUITE_FILENAME =>
         call.reportFilename =
           IF testsuites = <<>> \/ "file" \notin DOMAIN suiteObjs[testsuites[1].oid]
           THEN <<"s", "u", "i", "t", "e", "F", "i", "l", "e", "n", "a", "m", "e">>
           ELSE FirstSuiteFile
    /\ result.options.mochaFile.chars = SUITE_NAME =>
         call.reportFilename =
           IF Len(testsuites) < 2 THEN <<"s", "u", "i", "t", "e", "N", "a", "m", "e">>
           ELSE <<testsuites[2].testsuite[1]._attr.name>>

FailureBuilt == result.value.testcase[Len(result.value.testcase)].failure
HasDiff == ~call.hideDiff /\ "expected" \in DOMAIN call.err

\* C27: appendFailure never throws; the message attribute is the text of
\* err.message, else of err.inspect(), else empty, the type attribute is
\* err.name or empty, and without a diff the CDATA is err.stack when there
\* is one and the message otherwise, both without invalid characters
C27_FailureEntryNeverThrows ==
  call.fn = "appendFailure" =>
    /\ ~result.threw
    /\ FailureBuilt._attr.message =
         JsString(replaceAllInvalid(
           IF Truthy(Get(call.err, "message")) THEN ToChars(call.err.message)
           ELSE IF "inspect" \in DOMAIN call.err THEN ToChars(call.err.inspect.returns)
           ELSE <<>>))
    /\ FailureBuilt._attr.type =
         (IF "name" \in DOMAIN call.err THEN call.err.name ELSE JsString(<<>>))
    /\ ~HasDiff =>
         FailureBuilt._cdata =
           IF "stack" \in DOMAIN call.err
           THEN JsString(replaceAllInvalid(ToChars(call.err.stack)))
           ELSE FailureBuilt._attr.message

\* the testcases of all SuiteNodes
Testcases ==
  UNION {{testsuites[i].testsuite[j].testcase : j \in 2..Len(testsuites[i].testsuite)} :
           i \in 1..Len(testsuites)}

ChildKey(child) == CHOOSE key \in DOMAIN child : TRUE
ChildRank(child) ==
  CASE ChildKey(child) = "system-out" -> 1
    [] ChildKey(child) = "system-err" -> 2
    [] ChildKey(child) \in {"failure", "skipped"} -> 3
    [] OTHER -> 0

\* C29: in every testcase the first element is the attribute record and the
\* other elements are, in this order and each at most once, system-out,
\* system-err and one of failure and skipped
C29_TestcaseChildrenInFixedOrder ==
  \A testcase \in Testcases :
    /\ DOMAIN testcase[1] = {"_attr"}
    /\ \A k \in 2..Len(testcase) :
         /\ Cardinality(DOMAIN testcase[k]) = 1
         /\ ChildRank(testcase[k]) > 0
         /\ k > 2 => ChildRank(testcase[k - 1]) < ChildRank(testcase[k])

\* a failed test with console output and console errors, and a pending test
\* with both
C29_Witness ==
  /\ \E testcase \in Testcases :
       /\ Len(testcase) = 4
       /\ ChildKey(testcase[4]) = "failure"
  /\ \E testcase \in Testcases :
       /\ Len(testcase) = 4
       /\ ChildKey(testcase[4]) = "skipped"

OutcomeEvent == call'.fn \in {"pass", "fail", "pending"} /\ outcomes' = outcomes + 1

AsEmitted(suite) == Delete(suite, "ended")

\* C31: no event changes a suite object the runner has emitted; the file
\* cache has one entry for each valid suite that has started and for no
\* other, and an entry never changes once it is there
C31_FilesKeptInSideTableOnly ==
  [][/\ \A i \in 1..Len(suiteObjs) : AsEmitted(suiteObjs'[i]) = AsEmitted(suiteObjs[i])
     /\ \A id \in DOMAIN suiteFileCache :
          id \in DOMAIN suiteFileCache' /\ suiteFileCache'[id] = suiteFileCache[id]
     /\ DOMAIN suiteFileCache' =
          {i \in 1..Len(suiteObjs') : ~isInvalidSuite(suiteObjs'[i])}]_vars

\* a suite with a file of its own has started inside a suite with another
\* file, and a test of it has been reported
C31_Witness ==
  /\ call.fn \in {"pass", "fail", "pending"}
  /\ \E id \in DOMAIN suiteFileCache :
       /\ suiteObjs[id].parent \in DOMAIN suiteFileCache
       /\ suiteFileCache[id] # suiteFileCache[suiteObjs[id].parent]
       /\ suiteFileCache[suiteObjs[id].parent] # Undefined

\* the content of the call is a record with a child and no CDATA
HasChildContent ==
  /\ call.content.type = "object"
  /\ Prop(call.content, "_cdata") = Undefined
  /\ \E i \in 1..Len(call.content.entries) : call.content.entries[i].key # "_attr"

InnerXml == buildXml(call.content, call.options, call.depth + 1).xml
NewlinesIn(cs) == Cardinality({i \in 1..Len(cs) : cs[i] = "\n"})
AttributesOfCall ==
  IF Truthy(Prop(call.content, "_attr")) THEN attributesOf(Prop(call.content, "_attr"))
  ELSE <<>>

\* C32: a record with child content is rendered on one line, the open tag,
\* the trimmed inner content and the close tag, exactly when the trimmed
\* inner content has no newline and fewer than 80 characters; otherwise the
\* open tag, the inner content rendered one level deeper and the close tag
\* stand on lines of their own
C32_CompactBelowEightyCharacters ==
  (call.fn = "buildXmlElement" /\ HasChildContent /\ ~result.threw) =>
    LET indentStr == repeat(indentOf(call.options), call.depth)
        short == NewlinesIn(trim(InnerXml)) = 0 /\ Len(trim(InnerXml)) <= 79
    IN  /\ short <=> NewlinesIn(result.xml) = 1
        /\ short =>
             result.xml = indentStr \o openTag(call.tagName, AttributesOfCall)
                            \o trim(InnerXml) \o closeTag(call.tagName) \o <<"\n">>
        /\ ~short =>
             /\ result.xml = indentStr \o openTag(call.tagName, AttributesOfCall) \o <<"\n">>
                               \o InnerXml \o indentStr \o closeTag(call.tagName) \o <<"\n">>
             /\ StartsWith(InnerXml, repeat(indentOf(call.options), call.depth + 1) \o <<"<">>)

\* the inner content has exactly 80 characters and no newline, and the
\* record is rendered on three lines
C32_Witness ==
  /\ call.fn = "buildXmlElement"
  /\ HasChildContent
  /\ ~result.threw
  /\ Len(trim(InnerXml)) = 80
  /\ NewlinesIn(trim(InnerXml)) = 0
  /\ NewlinesIn(result.xml) = 3

ToConsole == result.options.toConsole = JsBoolean(TRUE)
Echo == IF ToConsole THEN <<"console.log">> ELSE <<>>

\* C33 as stated: no document exists before 'end'; an 'end' handler that
\* returns has finalized, resolved the file name, written the file and, with
\* toConsole, echoed the document, in this order; nothing is echoed when the
\* write has thrown
C33_EndFinalizesNamesWritesEchoes ==
  /\ call.fn # "end" => returned = <<>>
  /\ call.fn = "end" =>
       /\ returned # <<>>
       /\ call.wrote.threw => ~call.echoed /\ Last(call.steps) # "console.log"
       /\ ~call.wrote.threw =>
            /\ call.wrote.written
            /\ call.steps = <<"getXml", "formatReportFilename", "writeXmlToDisk",
                              "mkdirSync", "writeFileSync">> \o Echo

\* C33, amended: as stated, but with an empty file name the handler returns
\* without a call of the file system and without a file
C33_EndWritesUnlessNameEmpty ==
  /\ call.fn # "end" => returned = <<>>
  /\ call.fn = "end" =>
       /\ returned # <<>>
       /\ call.wrote.threw => ~call.echoed /\ Last(call.steps) # "console.log"
       /\ (~call.wrote.threw /\ call.reportFilename # <<>>) =>
            /\ call.wrote.written
            /\ call.steps = <<"getXml", "formatReportFilename", "writeXmlToDisk",
                              "mkdirSync", "writeFileSync">> \o Echo
       /\ call.reportFilename = <<>> =>
            /\ ~call.wrote.threw /\ ~call.wrote.written
            /\ call.steps = <<"getXml", "formatReportFilename", "writeXmlToDisk">> \o Echo

\* the 'end' handler has returned in a run with SuiteNodes, toConsole set
\* and an empty file name: nothing was written and the document was echoed
C33_Witness ==
  /\ call.fn = "end"
  /\ testsuites # <<>>
  /\ call.reportFilename = <<>>
  /\ ~call.wrote.written
  /\ call.echoed

\* C34: a testcase that appendFileAttribute has left with a file attribute
\* has a file attribute that is not the empty string
C34_FileAttributeNeverEmpty ==
  call.fn = "appendFileAttribute" =>
    ("file" \in DOMAIN result.testcase[1]._attr =>
       result.testcase[1]._attr.file.chars # <<>>)

\* the suites of the run that are valid, in the order of their start events
StartedValid == SelectSeq(suiteObjs, LAMBDA suite : ~isInvalidSuite(suite))

\* C35: after any number of getXml calls the stored list holds the SuiteNodes
\* that the suite-start events created, one per valid suite, in the order of
\* their creation, each the node object that was created, and no root record
C35_FinalizeKeepsStoredList ==
  returned # <<>> =>
    /\ \A i \in 1..Len(testsuites) : DOMAIN testsuites[i] = {"testsuite", "oid"}
    /\ Len(testsuites) = Len(StartedValid)
    /\ \A i \in 1..Len(testsuites) : testsuites[i].oid = StartedValid[i].id

C35_Witness ==
  /\ Len(returned) = MaxXmlCalls
  /\ Len(testsuites) >= 2
  /\ Len(StartedValid) < Len(suiteObjs)
  /\ "_attr" \in DOMAIN returned[Len(returned)].testsuites[1]
  /\ Len(returned[Len(returned)].testsuites) = Len(testsuites) + 1

\* the SuiteNode at position k has received a testcase in this step
Received(k) ==
  /\ Len(testsuites') = Len(testsuites)
  /\ Len(testsuites'[k].testsuite) = Len(testsuites[k].testsuite) + 1

\* C36: the testcase of an outcome whose parent suite is valid is stored in
\* the SuiteNode that the start of that parent suite created, also when a
\* suite nested in the parent has started or ended before the outcome
C36_TestcaseStoredInParentNode ==
  [][\A k \in 1..Len(testsuites) :
       (Received(k) /\ stack # <<>> /\ ~isInvalidSuite(suiteObjs[Last(stack)]))
         => testsuites[k].oid = Last(stack)]_vars

CDATA_START == <<"<", "!", "[", "C", "D", "A", "T", "A", "[">>
CDATA_END == <<"]", "]", ">">>

StartsAt(cs, i, prefix) ==
  /\ i + Len(prefix) - 1 <= Len(cs)
  /\ \A m \in 1..Len(prefix) : cs[i + m - 1] = prefix[m]

\* the place i lies in a CDATA section: one has started before it and has
\* not ended before it
InCdata(cs, i) ==
  \E p \in 1..(i - 1) :
    /\ StartsAt(cs, p, CDATA_START)
    /\ \A q \in (p + Len(CDATA_START))..(i - Len(CDATA_END)) : ~StartsAt(cs, q, CDATA_END)

\* the places where a tag starts
TagStarts(cs) ==
  {i \in 1..(Len(cs) - 1) :
     /\ cs[i] = "<"
     /\ cs[i + 1] # "?"
     /\ ~StartsAt(cs, i, CDATA_START)
     /\ ~InCdata(cs, i)}

\* the place of the ">" that ends the tag that starts at i
tagEnd(cs, i) ==
  CHOOSE j \in i..(Len(cs) + 1) :
    /\ j = Len(cs) + 1 \/ cs[j] = ">"
    /\ \A k \in i..(j - 1) : cs[k] # ">"

Tag(kind, name) == [kind |-> kind, name |-> name]

tagAt(cs, i, end) ==
  IF cs[i + 1] = "/" THEN Tag("end", cs[i + 2])
  ELSE IF end <= Len(cs) /\ cs[end - 1] = "/" THEN Tag("empty", cs[i + 1])
  ELSE Tag("start", cs[i + 1])

tagsAt(cs, starts) ==
  [k \in 1..Cardinality(starts) |->
     CHOOSE tag \in {tagAt(cs, i, tagEnd(cs, i)) :
                      i \in {j \in starts : Cardinality({l \in starts : l < j}) = k - 1}} : TRUE]

\* the tags of a document in the order they are read
tagsOf(cs) == CHOOSE tags \in {tagsAt(cs, starts) : starts \in {TagStarts(cs)}} : TRUE

\* the elements open after the first k tags
depthAfter(tags, k) ==
  Cardinality({j \in 1..k : tags[j].kind = "start"})
    - Cardinality({j \in 1..k : tags[j].kind = "end"})

\* every end tag closes the element that was opened last and is still open,
\* and no element stays open
closesInOrder(tags) ==
  /\ depthAfter(tags, Len(tags)) = 0
  /\ \A k \in 1..Len(tags) :
       tags[k].kind = "end" =>
         \E j \in 1..(k - 1) :
           /\ tags[j].kind = "start"
           /\ tags[j].name = tags[k].name
           /\ depthAfter(tags, j - 1) = depthAfter(tags, k)
           /\ \A l \in j..(k - 1) : depthAfter(tags, l) > depthAfter(tags, k)

\* the testsuite element of a SuiteNode with one testcase element for each
\* of its TestcaseNodes
ElementsOfSuite(suite) ==
  <<Tag("start", "testsuite")>>
    \o Flatten([i \in 1..(Len(Prop(suite, "testsuite").items) - 1) |->
                  <<Tag("start", "testcase"), Tag("end", "testcase")>>])
    \o <<Tag("end", "testsuite")>>

ElementsOfDocument(suites) ==
  <<Tag("start", "testsuites")>>
    \o Flatten([i \in 1..Len(suites) |-> ElementsOfSuite(suites[i])])
    \o <<Tag("end", "testsuites")>>

\* C38: the document of any list of SuiteNodes has one testsuites element
\* around everything, one testsuite element for each SuiteNode in the order
\* of the list, one testcase element for each TestcaseNode inside the
\* testsuite of its SuiteNode, and every element is closed before the
\* element that was opened before it
C38_DocumentMirrorsTree ==
  call.fn = "getXml" =>
    /\ ~result.threw
    /\ \A tags \in {tagsOf(result.xml)} :
         /\ SelectSeq(tags, LAMBDA t : t.name \in {"testsuites", "testsuite", "testcase"})
              = ElementsOfDocument(call.testsuites)
         /\ closesInOrder(tags)
====
